---- MODULE Spec2Model ----
(***************************************************************************)
(* scadufax: reification of template trees and the secret resolver          *)
(* (pkg/processor, cmd/scadu reify.go), the reify-install-commit loop of   *)
(* edit (cmd/scadu edit.go), directory comparison (cmd/scadu check.go,     *)
(* update.go) and the update command's synchronisation sequence            *)
(* (cmd/scadu/update.go, pkg/gitops).                                      *)
(*                                                                         *)
(* A path is a sequence of name segments (<<"c","x">> is c/x).  A tree is  *)
(* a function from the paths of its regular files to file records; the     *)
(* directories are the proper prefixes of those paths.  A file's bytes are *)
(* a sequence of lexemes: <<"text",t>> is an opaque chunk of plain text,   *)
(* <<"key",k>> the bytes {{.k}}, <<"secret",K>> the bytes                  *)
(* {{ "K" | secret }}, <<"secretnc",K>> another spelling of the same       *)
(* pipeline ({{"K"|secret}}) and <<"bad","">> an unterminated action.      *)
(***************************************************************************)
EXTENDS Integers, Sequences, FiniteSets, TLC

VARIABLES
    \* ---- compareDirs / getDiffs (check.go, update.go)
    sourceDir, targetDir, ignores, checkAll, report, changes, cmpPc,
    \* ---- reify command (reify.go, processor.go)
    root, root0, data, useSecret, secretFn, reifyPc, walkIdx, reifyErr,
    runs, root1,
    \* ---- edit command after the editor closed (edit.go)
    dirtyFiles, editIdx, tempDir, committed, uuids,
    \* ---- update command (update.go)
    updPc, branch, localDir, homeDir, home0, forkHead, originFork, mainHead,
    mainID, forkID, updateWait, ignorePatterns, diffs, resp, copyIdx,
    trace, iters, markerSeq, diffBranch, updErr, calls, originMain, errPath,
    \* the check command: its flags, viper's settings, the scratch directory of
    \* the full comparison, what the two comparisons printed
    checkFlagLocal, checkFlagFull, checkFlagAll, checkData, checkTemp,
    localStatus, templateStatus,
    \* add, edit and remove: position, arguments, flags, standard input, the
    \* error returned, what the editor was shown, what happened to each file
    repoPc, args, argIdx, relPaths, addWithEdit, removeLocal, confirm, stdin,
    repoErr, opened, events,
    \* the commit message under test, the token generated last, the marker read
    headMessage, lastToken, headID,
    \* ---- branches (gitops.go): refs/heads, refs/remotes/origin, the branch
    \* HEAD names, unstaged changes in the worktree, the commit CreateBranch
    \* gave each branch it made, the last call and the number of calls
    localRefs, remoteRefs, HEAD, unstaged, createdAt, gitOp, gitN

cmpVars == <<sourceDir, targetDir, ignores, checkAll, report, changes, cmpPc>>
editVars == <<dirtyFiles, editIdx, tempDir, committed, uuids>>
reifyVars == <<root, root0, data, useSecret, secretFn, reifyPc, walkIdx, reifyErr,
               runs, root1, editVars>>
updOther == <<updPc, branch, forkHead, originFork, mainHead, mainID, forkID,
              updateWait, ignorePatterns, diffs, resp, copyIdx, trace, iters,
              markerSeq, diffBranch, updErr, calls, originMain, errPath>>
checkVars == <<checkFlagLocal, checkFlagFull, checkFlagAll, checkData, checkTemp,
               localStatus, templateStatus>>
updVars == <<updOther, localDir, homeDir, home0, checkVars>>
markerVars == <<headMessage, lastToken, headID>>
repoCmdVars == <<repoPc, args, argIdx, relPaths, addWithEdit, removeLocal, confirm,
                 stdin, repoErr, opened, events>>
gitVars == <<localRefs, remoteRefs, HEAD, unstaged, createdAt, gitOp, gitN>>
repoVars == <<repoCmdVars, markerVars, gitVars>>
vars == <<cmpVars, reifyVars, updVars, repoVars>>

(***************************************************************************)
(* Bounds                                                                  *)
(***************************************************************************)
\* Files in the two trees of one comparison, taken together.
MaxCmpFiles == 3
\* Files in the tree handed to reify.
MaxReifyFiles == 2
\* Pull attempts of one update run (the wait loop itself is unbounded).
MaxPulls == 3

(***************************************************************************)
(* File system                                                             *)
(***************************************************************************)
\* Byte order of the segment names used below ('.' sorts before letters).
NameOrder == <<".env", ".git", "a", "b", "c", "x">>

Rank(n) == CHOOSE i \in 1..Len(NameOrder) : NameOrder[i] = n

Min(a, b) == IF a < b THEN a ELSE b

IsPrefix(p, q) == Len(p) < Len(q) /\ SubSeq(q, 1, Len(p)) = p

\* The order in which filepath.WalkDir reaches two file paths: entries of a
\* directory are visited in name order, a directory's content before its
\* later siblings.
PathLess(p, q) ==
    \/ \E i \in 1..Min(Len(p), Len(q)) :
          /\ \A j \in 1..(i - 1) : p[j] = q[j]
          /\ Rank(p[i]) < Rank(q[i])
    \/ IsPrefix(p, q)

RECURSIVE SortPaths(_)
SortPaths(S) ==
    IF S = {} THEN <<>>
    ELSE LET m == CHOOSE p \in S : \A q \in S \ {p} : PathLess(p, q)
         IN  <<m>> \o SortPaths(S \ {m})

\* A directory named .git is skipped with everything below it.
InGitDir(p) == \E i \in 1..(Len(p) - 1) : p[i] = ".git"

\* The files the WalkDir callbacks reach, in walk order.
WalkFiles(tree) == SortPaths({p \in DOMAIN tree : ~InGitDir(p)})

\* os.Stat(filepath.Join(dir, rel)): a regular file, a directory, ENOENT, or
\* ENOTDIR when a component of the path is a regular file.
Stat(tree, p) ==
    IF p \in DOMAIN tree THEN "file"
    ELSE IF \E q \in DOMAIN tree : IsPrefix(p, q) THEN "dir"
    ELSE IF \E q \in DOMAIN tree : IsPrefix(q, p) THEN "enotdir"
    ELSE "enoent"

\* os.IsNotExist(err) for the error of os.Stat: true for ENOENT only.
IsNotExist(st) == st = "enoent"

\* The file at path p of a tree; no bytes and no permissions when there is
\* none.
At(tree, p) ==
    IF p \in DOMAIN tree THEN tree[p] ELSE [data |-> <<>>, r |-> FALSE, w |-> FALSE]

\* os.ReadFile succeeds on a regular file the process may read.
CanRead(tree, p) == p \in DOMAIN tree /\ tree[p].r

File(d) == [data |-> d, r |-> TRUE, w |-> TRUE]
Txt(t) == <<<<"text", t>>>>

NoTree == [p \in {} |-> File(<<>>)]

\* All trees over the path set P with at most n files drawn from F.
TreesOver(P, F, n) ==
    UNION {[S -> F] : S \in {T \in SUBSET P : Cardinality(T) <= n
                                              /\ \A p, q \in T : ~IsPrefix(p, q)}}

(***************************************************************************)
(* isIgnored, areFilesDifferent, compareDirs, getDiffs                     *)
(***************************************************************************)
\* filepath.Match on a relative path, segment by segment: a pattern is a
\* sequence of segment patterns, each a literal name or "*"; "*" matches
\* one whole segment and never crosses a separator, so a pattern matches
\* only paths with as many segments as it has.
Match(pat, rel) ==
    /\ Len(pat) = Len(rel)
    /\ \A i \in 1..Len(pat) : pat[i] = "*" \/ pat[i] = rel[i]

isIgnored_first(relPath, patterns) ==
    Len(patterns) > 0 /\ Match(patterns[1], relPath)

isIgnored(relPath, patterns) ==
    \E i \in 1..Len(patterns) : Match(patterns[i], relPath)

areFilesDifferent(dirA, pathA, dirB, pathB) ==
    IF ~CanRead(dirA, pathA) THEN TRUE
    ELSE IF ~CanRead(dirB, pathB) THEN TRUE
    ELSE dirA[pathA].data # dirB[pathB].data

Entry(tag, rel) == [tag |-> tag, path |-> rel]

\* The callback of the walk over sourceDir, for one file.
SourceEntry(src, tgt, pats, rel) ==
    IF isIgnored(rel, pats) THEN <<>>
    ELSE IF IsNotExist(Stat(tgt, rel)) THEN <<Entry("N", rel)>>
    ELSE IF areFilesDifferent(src, rel, tgt, rel) THEN <<Entry("M", rel)>>
    ELSE <<>>

TargetEntry_noStat(src, tgt, pats, rel) ==
    IF isIgnored(rel, pats) THEN <<>> ELSE <<Entry("D", rel)>>

\* The callback of the walk over targetDir, for one file.
TargetEntry(src, tgt, pats, rel) ==
    IF isIgnored(rel, pats) THEN <<>>
    ELSE IF IsNotExist(Stat(src, rel)) THEN <<Entry("D", rel)>>
    ELSE <<>>

RECURSIVE SourceWalk(_, _, _, _)
SourceWalk(src, tgt, pats, files) ==
    IF files = <<>> THEN <<>>
    ELSE SourceEntry(src, tgt, pats, Head(files))
         \o SourceWalk(src, tgt, pats, Tail(files))

RECURSIVE TargetWalk(_, _, _, _)
TargetWalk(src, tgt, pats, files) ==
    IF files = <<>> THEN <<>>
    ELSE TargetEntry(src, tgt, pats, Head(files))
         \o TargetWalk(src, tgt, pats, Tail(files))

IsModified(e) == e.tag = "M"

compareDirs_newOnlyWithAll(src, tgt, pats, all) ==
    IF all
    THEN SourceWalk(src, tgt, pats, WalkFiles(src))
         \o TargetWalk(src, tgt, pats, WalkFiles(tgt))
    ELSE SelectSeq(SourceWalk(src, tgt, pats, WalkFiles(src)), IsModified)

\* The lines compareDirs prints, in order.
compareDirs(src, tgt, pats, all) ==
    SourceWalk(src, tgt, pats, WalkFiles(src))
    \o (IF all THEN TargetWalk(src, tgt, pats, WalkFiles(tgt)) ELSE <<>>)

\* The callback of getDiffs' walk collecting modified files only.
DiffEntry_modifiedOnly(src, tgt, pats, rel) ==
    IF isIgnored(rel, pats) THEN <<>>
    ELSE LET isNew == IsNotExist(Stat(tgt, rel))
             isMod == ~isNew /\ areFilesDifferent(src, rel, tgt, rel)
         IN  IF isMod THEN <<rel>> ELSE <<>>

\* The callback of getDiffs' walk, for one file: the path when new or modified.
DiffEntry(src, tgt, pats, rel) ==
    IF isIgnored(rel, pats) THEN <<>>
    ELSE LET isNew == IsNotExist(Stat(tgt, rel))
             isMod == ~isNew /\ areFilesDifferent(src, rel, tgt, rel)
         IN  IF isNew THEN <<rel>> ELSE IF isMod THEN <<rel>> ELSE <<>>

RECURSIVE DiffWalk(_, _, _, _)
DiffWalk(src, tgt, pats, files) ==
    IF files = <<>> THEN <<>>
    ELSE DiffEntry(src, tgt, pats, Head(files))
         \o DiffWalk(src, tgt, pats, Tail(files))

getDiffs(src, tgt, pats) == DiffWalk(src, tgt, pats, WalkFiles(src))

(***************************************************************************)
(* Comparison specification: check's compareDirs and update's getDiffs     *)
(* applied to bounded pairs of trees.                                      *)
(***************************************************************************)
CmpPaths == {<<".git", "x">>, <<"a">>, <<"b">>, <<"c">>, <<"c", "x">>}

Unreadable(d) == [data |-> d, r |-> FALSE, w |-> TRUE]

CmpFiles == {File(Txt("1")), File(Txt("2")), Unreadable(Txt("1"))}

\* The trees of the diff-correctness example.
TreeA == (<<"a">> :> File(Txt("1"))) @@ (<<"b">> :> File(Txt("2")))
TreeB == (<<"a">> :> File(Txt("1"))) @@ (<<"b">> :> File(Txt("3")))
         @@ (<<"c">> :> File(Txt("4")))

CmpPairs ==
    {st \in TreesOver(CmpPaths, CmpFiles, MaxCmpFiles)
            \X TreesOver(CmpPaths, CmpFiles, MaxCmpFiles) :
        Cardinality(DOMAIN st[1]) + Cardinality(DOMAIN st[2]) <= MaxCmpFiles}
    \cup {<<TreeA, TreeB>>, <<TreeB, TreeA>>}

IgnoreLists ==
    { <<>>,
      << <<"b">> >>,
      << <<"*">> >>,
      << <<"c", "*">>, <<"b">> >> }

CmpIdle ==
    /\ sourceDir = NoTree /\ targetDir = NoTree /\ ignores = <<>>
    /\ checkAll = FALSE /\ report = <<>> /\ changes = <<>> /\ cmpPc = {}

ReifyIdle ==
    /\ root = NoTree /\ root0 = NoTree /\ data = NoTree /\ useSecret = FALSE
    /\ secretFn = [mode |-> "none"] /\ reifyPc = "off" /\ walkIdx = 0
    /\ reifyErr = [kind |-> "none", path |-> <<>>, cause |-> "none"]
    /\ runs = 0 /\ root1 = NoTree
    /\ dirtyFiles = <<>> /\ editIdx = 0 /\ tempDir = NoTree /\ committed = <<>>
    /\ uuids = 0

MarkerIdle == headMessage = <<>> /\ lastToken = <<>> /\ headID = <<>>

RepoCmdIdle ==
    /\ repoPc = "off" /\ args = <<>> /\ argIdx = 0 /\ relPaths = <<>>
    /\ addWithEdit = FALSE /\ removeLocal = FALSE /\ confirm = "unset"
    /\ stdin = <<>> /\ repoErr = "" /\ opened = <<>> /\ events = <<>>

NoRefs == [b \in {} |-> 0]

NoOp == [op |-> "none", name |-> "", err |-> ""]

GitIdle ==
    /\ localRefs = NoRefs /\ remoteRefs = NoRefs /\ HEAD = "" /\ unstaged = FALSE
    /\ createdAt = NoRefs /\ gitOp = NoOp /\ gitN = 0

RepoIdle == RepoCmdIdle /\ MarkerIdle /\ GitIdle

UpdRestIdle ==
    /\ updPc = "off"
    /\ originFork = [id |-> "", tree |-> NoTree]
    /\ mainID = "" /\ forkID = "" /\ updateWait = FALSE /\ ignorePatterns = <<>>
    /\ diffs = <<>> /\ resp = <<>> /\ copyIdx = 0 /\ trace = <<>> /\ iters = 0
    /\ markerSeq = <<>> /\ diffBranch = ""
    /\ updErr = "" /\ calls = <<>> /\ originMain = [id |-> "", tree |-> NoTree]
    /\ errPath = <<>>
    /\ checkFlagLocal = FALSE /\ checkFlagFull = FALSE /\ checkFlagAll = FALSE
    /\ checkData = NoTree /\ checkTemp = NoTree
    /\ localStatus = <<>> /\ templateStatus = <<>>

UpdOtherIdle ==
    /\ UpdRestIdle
    /\ branch = "fork"
    /\ forkHead = [id |-> "", tree |-> NoTree]
    /\ mainHead = [id |-> "", tree |-> NoTree]

UpdIdle ==
    /\ UpdOtherIdle
    /\ localDir = NoTree /\ homeDir = NoTree /\ home0 = NoTree

InitCompare ==
    /\ \E st \in CmpPairs : sourceDir = st[1] /\ targetDir = st[2]
    /\ ignores \in IgnoreLists
    /\ checkAll \in BOOLEAN
    /\ report = <<>> /\ changes = <<>> /\ cmpPc = {}
    /\ ReifyIdle /\ UpdIdle /\ RepoIdle

\* checkCmd.RunE: compareDirs(localDir, homeDir, ignorePatterns, checkFlagAll).
CheckCompare ==
    /\ "compareDirs" \notin cmpPc
    /\ report' = compareDirs(sourceDir, targetDir, ignores, checkAll)
    /\ cmpPc' = cmpPc \cup {"compareDirs"}
    /\ UNCHANGED <<sourceDir, targetDir, ignores, checkAll, changes>>
    /\ UNCHANGED <<reifyVars, updVars, repoVars>>

\* updateCmd.RunE: getDiffs(localDir, homeDir, ignorePatterns).
UpdateDiff ==
    /\ "getDiffs" \notin cmpPc
    /\ changes' = getDiffs(sourceDir, targetDir, ignores)
    /\ cmpPc' = cmpPc \cup {"getDiffs"}
    /\ UNCHANGED <<sourceDir, targetDir, ignores, checkAll, report>>
    /\ UNCHANGED <<reifyVars, updVars, repoVars>>

NextCompare == CheckCompare \/ UpdateDiff

SpecCompare == InitCompare /\ [][NextCompare]_vars

(***************************************************************************)
(* Template rendering and the reify command                                *)
(***************************************************************************)
NoErr == [kind |-> "none", path |-> <<>>, cause |-> "none"]
Err(kind, path, cause) == [kind |-> kind, path |-> path, cause |-> cause]

Rendered(out) == [ok |-> TRUE, out |-> out, kind |-> "none", cause |-> "none"]
RenderError(kind, cause) == [ok |-> FALSE, out |-> <<>>, kind |-> kind, cause |-> cause]

\* godotenv.Parse: the KEY=value lines of the file, as a map.
EnvLine(line) ==
    CASE line = "KEY=abc" -> <<"KEY", "abc">>
      [] line = "KEY=sub" -> <<"KEY", "sub">>
      [] line = "OTHER=x" -> <<"OTHER", "x">>
      [] OTHER -> <<"", "">>

ParseEnv(content) ==
    LET pairs == {EnvLine(content[i][2]) : i \in 1..Len(content)} \ {<<"", "">>}
    IN  [k \in {kv[1] : kv \in pairs} |-> (CHOOSE kv \in pairs : kv[1] = k)[2]]

\* The store file of a directory: filepath.Join(dir, ".env").
EnvPath == <<".env">>

\* godotenv.Read(envPath): the map of the file, or the error of opening and
\* reading it ("notexist" is the one os.IsNotExist recognises).
ReadEnv(tree, envPath) ==
    IF CanRead(tree, envPath)
    THEN [err |-> "none", env |-> ParseEnv(tree[envPath].data)]
    ELSE [err |-> IF IsNotExist(Stat(tree, envPath)) THEN "notexist" ELSE "other",
          env |-> <<>>]

\* The pass-through closure of reifyCmd: fmt.Sprintf("{{ %q | secret }}", key).
secretFnPassThrough_unspaced(key) == <<<<"secretnc", key>>>>

secretFnPassThrough(key) == <<<<"secret", key>>>>

PassThrough == [mode |-> "passthrough", env |-> <<>>, required |-> FALSE]

\* The closure GetSecretFn returns over the loaded map.
Strict(envMap, required) ==
    [mode |-> "strict", env |-> envMap, required |-> required]

NoSecretFn == [mode |-> "none"]

\* GetSecretFn, with a resolver that tolerates every read failure when the
\* store is not required.
GetSecretFn_tolerant(tree, envPath, required) ==
    LET rd == ReadEnv(tree, envPath)
    IN  IF required /\ rd.err # "none"
        THEN [err |-> Err("env", envPath, "unreadable"), fn |-> NoSecretFn]
        ELSE [err |-> NoErr, fn |-> Strict(rd.env, required)]

\* GetSecretFn(envPath, required): the error it returns, or the closure.
GetSecretFn(tree, envPath, required) ==
    LET rd == ReadEnv(tree, envPath)
    IN  IF required
        THEN IF rd.err # "none"
             THEN [err |-> Err("env", envPath, "unreadable"), fn |-> NoSecretFn]
             ELSE [err |-> NoErr, fn |-> Strict(rd.env, required)]
        ELSE IF rd.err # "none" /\ rd.err # "notexist"
             THEN [err |-> Err("env", envPath, "unreadable"), fn |-> NoSecretFn]
             ELSE [err |-> NoErr, fn |-> Strict(rd.env, required)]

\* One call of secretFn, with an empty value for a key the optional store
\* lacks.
CallSecret_emptyWhenOptional(fn, key) ==
    IF fn.mode = "passthrough" THEN Rendered(secretFnPassThrough(key))
    ELSE IF key \in DOMAIN fn.env THEN Rendered(Txt(fn.env[key]))
    ELSE IF fn.required THEN RenderError("execute", "secret")
    ELSE Rendered(<<>>)

\* One call of secretFn from inside the template.
CallSecret(fn, key) ==
    IF fn.mode = "passthrough" THEN Rendered(secretFnPassThrough(key))
    ELSE IF key \in DOMAIN fn.env THEN Rendered(Txt(fn.env[key]))
    ELSE IF fn.required THEN RenderError("execute", "secret")
    ELSE RenderError("execute", "secret")

\* tmpl.Execute on one node, with missingkey left at its default.
ExecNode_noValue(lx, d, fn) ==
    CASE lx[1] = "text" -> Rendered(<<lx>>)
      [] lx[1] = "key" ->
            IF lx[2] \in DOMAIN d THEN Rendered(d[lx[2]])
            ELSE Rendered(Txt("<no value>"))
      [] lx[1] \in {"secret", "secretnc"} -> CallSecret(fn, lx[2])
      [] OTHER -> RenderError("parse", "syntax")

\* tmpl.Execute on one action or text node, with missingkey=error.
ExecNode(lx, d, fn) ==
    CASE lx[1] = "text" -> Rendered(<<lx>>)
      [] lx[1] = "key" ->
            IF lx[2] \in DOMAIN d THEN Rendered(d[lx[2]])
            ELSE RenderError("execute", "missingkey")
      [] lx[1] \in {"secret", "secretnc"} -> CallSecret(fn, lx[2])
      [] OTHER -> RenderError("parse", "syntax")

RECURSIVE Execute(_, _, _)
Execute(content, d, fn) ==
    IF content = <<>> THEN Rendered(<<>>)
    ELSE LET first == ExecNode(Head(content), d, fn)
         IN  IF ~first.ok THEN first
             ELSE LET rest == Execute(Tail(content), d, fn)
                  IN  IF ~rest.ok THEN rest ELSE Rendered(first.out \o rest.out)

\* template.New(...).Parse followed by Execute: the parse of the whole text
\* comes first.
Render(content, d, fn) ==
    IF \E i \in 1..Len(content) : content[i][1] = "bad"
    THEN RenderError("parse", "syntax")
    ELSE Execute(content, d, fn)

\* os.WriteFile needs write permission on an existing file.
CanWrite(tree, p) == p \in DOMAIN tree => tree[p].w

\* os.WriteFile opening the file for append instead of truncating it.
WriteFile_append(tree, p, bytes) ==
    IF p \in DOMAIN tree THEN [tree EXCEPT ![p].data = @ \o bytes]
    ELSE (p :> File(bytes)) @@ tree

\* os.WriteFile: an existing file is truncated and keeps its mode.
WriteFile(tree, p, bytes) ==
    IF p \in DOMAIN tree THEN [tree EXCEPT ![p].data = bytes]
    ELSE (p :> File(bytes)) @@ tree

\* renderAndWrite creating or truncating the destination before it renders.
renderAndWrite_openFirst(tree, name, destPath, content, d, fn, dryRun) ==
    LET res == Render(content, d, fn)
    IN  IF dryRun
        THEN [err |-> IF res.ok THEN NoErr ELSE Err(res.kind, name, res.cause),
              tree |-> tree]
        ELSE IF ~CanWrite(tree, destPath)
             THEN [err |-> Err("write", destPath, "permission"), tree |-> tree]
        ELSE IF ~res.ok
             THEN [err |-> Err(res.kind, name, res.cause),
                   tree |-> WriteFile(tree, destPath, <<>>)]
        ELSE [err |-> NoErr, tree |-> WriteFile(tree, destPath, res.out)]

\* renderAndWrite: the error it returns and the tree it leaves.
renderAndWrite(tree, name, destPath, content, d, fn, dryRun) ==
    LET res == Render(content, d, fn)
    IN  IF ~res.ok THEN [err |-> Err(res.kind, name, res.cause), tree |-> tree]
        ELSE IF dryRun THEN [err |-> NoErr, tree |-> tree]
        ELSE IF ~CanWrite(tree, destPath)
             THEN [err |-> Err("write", destPath, "permission"), tree |-> tree]
        ELSE [err |-> NoErr, tree |-> WriteFile(tree, destPath, res.out)]

\* processFile, with the store taken from the .env next to the file when
\* there is one.
processFile_localEnv(tree, path, d, fn, dryRun) ==
    LET near == SubSeq(path, 1, Len(path) - 1) \o EnvPath
        fnHere == IF fn.mode = "strict" /\ CanRead(tree, near)
                  THEN Strict(ReadEnv(tree, near).env, fn.required) ELSE fn
    IN  IF ~CanRead(tree, path)
        THEN [err |-> Err("read", path, "permission"), tree |-> tree]
        ELSE renderAndWrite(tree, path, path, tree[path].data, d, fnHere, dryRun)

\* processFile: read the file, then render it onto itself.
processFile(tree, path, d, fn, dryRun) ==
    IF ~CanRead(tree, path)
    THEN [err |-> Err("read", path, "permission"), tree |-> tree]
    ELSE renderAndWrite(tree, path, path, tree[path].data, d, fn, dryRun)

\* ReifyFile(sourcePath, destPath, ...): read the source, render it into the
\* destination tree.
ReifyFile(srcTree, destTree, sourcePath, destPath, d, fn) ==
    IF ~CanRead(srcTree, sourcePath)
    THEN [err |-> Err("read", sourcePath, "permission"), tree |-> destTree]
    ELSE renderAndWrite(destTree, sourcePath, destPath,
                        srcTree[sourcePath].data, d, fn, FALSE)

\* reifyCmd.RunE up to the first pass of Reify, whose dry run it skips.
ReifyCmd_noDryRun ==
    /\ reifyPc = "idle"
    /\ LET got == IF useSecret THEN GetSecretFn(root, EnvPath, TRUE)
                  ELSE [err |-> NoErr, fn |-> PassThrough]
       IN  IF got.err.kind # "none"
           THEN /\ reifyErr' = got.err
                /\ reifyPc' = "done"
                /\ UNCHANGED <<secretFn, walkIdx>>
           ELSE /\ secretFn' = got.fn
                /\ reifyPc' = "write"
                /\ walkIdx' = 1
                /\ UNCHANGED reifyErr
    /\ UNCHANGED <<root, root0, data, useSecret, runs, root1, editVars>>
    /\ UNCHANGED <<cmpVars, updVars, repoVars>>

\* reifyCmd.RunE: build the secret resolver (GetSecretFn(envPath, true) with
\* --secret, the pass-through closure without) and enter Reify's first pass.
ReifyCmd ==
    /\ reifyPc = "idle"
    /\ LET got == IF useSecret THEN GetSecretFn(root, EnvPath, TRUE)
                  ELSE [err |-> NoErr, fn |-> PassThrough]
       IN  IF got.err.kind # "none"
           THEN /\ reifyErr' = got.err
                /\ reifyPc' = "done"
                /\ UNCHANGED <<secretFn, walkIdx>>
           ELSE /\ secretFn' = got.fn
                /\ reifyPc' = "dry"
                /\ walkIdx' = 1
                /\ UNCHANGED reifyErr
    /\ UNCHANGED <<root, root0, data, useSecret, runs, root1, editVars>>
    /\ UNCHANGED <<cmpVars, updVars, repoVars>>

\* One callback of walkAndProcess(root, ..., dryRun), or the walk's end.
WalkStep(dryRun, pcHere, pcNext) ==
    /\ LET files == WalkFiles(root)
       IN  IF walkIdx > Len(files)
           THEN /\ reifyPc' = pcNext
                /\ walkIdx' = 1
                /\ UNCHANGED <<root, reifyErr>>
           ELSE LET res == processFile(root, files[walkIdx], data, secretFn, dryRun)
                IN  /\ root' = res.tree
                    /\ reifyErr' = res.err
                    /\ IF res.err.kind = "none"
                       THEN reifyPc' = pcHere /\ walkIdx' = walkIdx + 1
                       ELSE reifyPc' = "done" /\ UNCHANGED walkIdx
    /\ UNCHANGED <<root0, data, useSecret, secretFn, runs, root1, editVars>>
    /\ UNCHANGED <<cmpVars, updVars, repoVars>>

\* Reify, first pass: walkAndProcess(root, data, secretFn, true).
DryRunPass == reifyPc = "dry" /\ WalkStep(TRUE, "dry", "write")

\* Reify, second pass: walkAndProcess(root, data, secretFn, false).
WritePass == reifyPc = "write" /\ WalkStep(FALSE, "write", "done")

\* The reify command run once more on the tree the first run left, with the
\* same flags and configuration.
ReifyAgain ==
    /\ reifyPc = "done" /\ runs = 1
    /\ runs' = 2
    /\ root1' = root
    /\ root0' = root
    /\ secretFn' = NoSecretFn
    /\ reifyPc' = "idle" /\ walkIdx' = 0 /\ reifyErr' = NoErr
    /\ UNCHANGED <<root, data, useSecret, editVars>>
    /\ UNCHANGED <<cmpVars, updVars, repoVars>>

(***************************************************************************)
(* Commits and their messages. A message is a sequence of characters and   *)
(* of words that contain neither white space nor a line break.             *)
(***************************************************************************)
\* A relative path as text.
RECURSIVE PathText(_)
PathText(rel) ==
    IF Len(rel) <= 1 THEN rel
    ELSE <<Head(rel), "/">> \o PathText(Tail(rel))

\* uuid.New().String(): a value no earlier call returned.
uuidNew == [i \in 1..(uuids + 1) |-> "u"]

\* GenerateCommitMessage without the trailer.
GenerateCommitMessage_noTrailer(msg, id) == msg

\* fmt.Sprintf("%s\n\nSCADUFAX_ID: %s", msg, id)
GenerateCommitMessage(msg, id) ==
    msg \o <<"\n", "\n", "SCADUFAX_ID:", " ">> \o id

\* fmt.Sprintf("Update %s via scadu edit", rel)
EditMessage(rel) ==
    <<"Update", " ">> \o PathText(rel) \o <<" ", "via", " ", "scadu", " ", "edit">>

\* fmt.Sprintf("Add %s via scadu add", rel)
AddMessage(rel) ==
    <<"Add", " ">> \o PathText(rel) \o <<" ", "via", " ", "scadu", " ", "add">>

\* fmt.Sprintf("Remove %s via scadu remove", rel)
RemoveMessage(rel) ==
    <<"Remove", " ">> \o PathText(rel) \o <<" ", "via", " ", "scadu", " ", "remove">>

\* gitops.CommitFile: the commit it creates, on the branch that is checked
\* out.
CommitFile(rel, message) ==
    [path |-> rel, branch |-> branch, msg |-> message]

\* os.WriteFile(finalPath, content, mode) of PerformEdit: the parent directory
\* must exist and an existing file must be writable.
CanInstall(home, rel) ==
    /\ Stat(home, rel) \in {"file", "enoent"}
    /\ Len(rel) > 1 => Stat(home, SubSeq(rel, 1, Len(rel) - 1)) = "dir"
    /\ CanWrite(home, rel)

\* The file os.WriteFile leaves: an existing file keeps its mode, a new one
\* takes the mode of the repository file.
InstallFile(home, rel, bytes, mode) ==
    IF rel \in DOMAIN home THEN [home EXCEPT ![rel].data = bytes]
    ELSE (rel :> [data |-> bytes, r |-> mode.r, w |-> mode.w]) @@ home

\* PerformEdit from "Checking for changes" to the loop over dirtyFiles:
\* nothing dirty returns at once, otherwise the temporary directory is made
\* and GetSecretFn(homeDir/.env, false) builds the resolver.
PerformEdit ==
    /\ reifyPc = "edit"
    /\ IF dirtyFiles = <<>>
       THEN /\ reifyPc' = "edited"
            /\ UNCHANGED <<secretFn, reifyErr, editIdx>>
       ELSE LET got == GetSecretFn(homeDir, EnvPath, FALSE)
            IN  IF got.err.kind # "none"
                THEN /\ reifyErr' = got.err
                     /\ reifyPc' = "editReturn"
                     /\ UNCHANGED <<secretFn, editIdx>>
                ELSE /\ secretFn' = got.fn
                     /\ reifyPc' = "editFiles"
                     /\ editIdx' = 1
                     /\ UNCHANGED reifyErr
    /\ UNCHANGED <<root, root0, data, useSecret, walkIdx, runs, root1,
                   dirtyFiles, tempDir, committed, uuids>>
    /\ UNCHANGED <<cmpVars, updVars, repoVars>>

\* An iteration of the loop that goes on to the next file when ReifyFile
\* fails.
EditFile_skipFailed ==
    /\ reifyPc = "editFiles"
    /\ LET rel == dirtyFiles[editIdx]
           res == ReifyFile(localDir, tempDir, rel, rel, data, secretFn)
           last == editIdx = Len(dirtyFiles)
       IN  /\ tempDir' = res.tree
           /\ IF res.err.kind # "none"
              THEN /\ editIdx' = editIdx + 1
                   /\ reifyPc' = IF last THEN "editReturn" ELSE "editFiles"
                   /\ UNCHANGED <<homeDir, committed, reifyErr, uuids>>
              ELSE IF ~CanInstall(homeDir, rel)
              THEN /\ reifyErr' = Err("install", rel, "write")
                   /\ reifyPc' = "editReturn"
                   /\ UNCHANGED <<homeDir, committed, editIdx, uuids>>
              ELSE /\ homeDir' = InstallFile(homeDir, rel, res.tree[rel].data,
                                             localDir[rel])
                   /\ uuids' = uuids + 1
                   /\ \E commitOk \in BOOLEAN :
                         IF commitOk
                         THEN /\ committed' = Append(committed,
                                     CommitFile(rel, GenerateCommitMessage(
                                         EditMessage(rel), uuidNew)))
                              /\ editIdx' = editIdx + 1
                              /\ reifyPc' = IF last THEN "editReturn" ELSE "editFiles"
                              /\ UNCHANGED reifyErr
                         ELSE /\ reifyErr' = Err("commit", rel, "git")
                              /\ reifyPc' = "editReturn"
                              /\ UNCHANGED <<committed, editIdx>>
    /\ UNCHANGED <<root, root0, data, useSecret, secretFn, walkIdx, runs, root1,
                   dirtyFiles>>
    /\ UNCHANGED <<cmpVars, updOther, localDir, home0, checkVars, repoVars>>

\* One iteration of PerformEdit's loop: ReifyFile into the temporary
\* directory, install into home, commit in the repository with a message
\* from GenerateCommitMessage.
EditFile ==
    /\ reifyPc = "editFiles"
    /\ LET rel == dirtyFiles[editIdx]
           res == ReifyFile(localDir, tempDir, rel, rel, data, secretFn)
           last == editIdx = Len(dirtyFiles)
       IN  /\ tempDir' = res.tree
           /\ IF res.err.kind # "none"
              THEN /\ reifyErr' = res.err
                   /\ reifyPc' = "editReturn"
                   /\ UNCHANGED <<homeDir, committed, editIdx, uuids>>
              ELSE IF ~CanInstall(homeDir, rel)
              THEN /\ reifyErr' = Err("install", rel, "write")
                   /\ reifyPc' = "editReturn"
                   /\ UNCHANGED <<homeDir, committed, editIdx, uuids>>
              ELSE /\ homeDir' = InstallFile(homeDir, rel, res.tree[rel].data,
                                             localDir[rel])
                   /\ uuids' = uuids + 1
                   /\ \E commitOk \in BOOLEAN :
                         IF commitOk
                         THEN /\ committed' = Append(committed,
                                     CommitFile(rel, GenerateCommitMessage(
                                         EditMessage(rel), uuidNew)))
                              /\ editIdx' = editIdx + 1
                              /\ reifyPc' = IF last THEN "editReturn" ELSE "editFiles"
                              /\ UNCHANGED reifyErr
                         ELSE /\ reifyErr' = Err("commit", rel, "git")
                              /\ reifyPc' = "editReturn"
                              /\ UNCHANGED <<committed, editIdx>>
    /\ UNCHANGED <<root, root0, data, useSecret, secretFn, walkIdx, runs, root1,
                   dirtyFiles>>
    /\ UNCHANGED <<cmpVars, updOther, localDir, home0, checkVars, repoVars>>

\* PerformEdit returning: the deferred os.RemoveAll(tempDir).
EditReturn ==
    /\ reifyPc = "editReturn"
    /\ tempDir' = NoTree
    /\ reifyPc' = "edited"
    /\ UNCHANGED <<root, root0, data, useSecret, secretFn, walkIdx, reifyErr,
                   runs, root1, dirtyFiles, editIdx, committed, uuids>>
    /\ UNCHANGED <<cmpVars, updVars, repoVars>>

ReifyPaths == {<<".env">>, <<".git", "x">>, <<"a">>, <<"b">>}

ReadOnly(d) == [data |-> d, r |-> TRUE, w |-> FALSE]

TemplateBytes ==
    { Txt("1"),
      <<<<"key", "k">>>>,
      <<<<"text", "value = ">>, <<"secret", "KEY">>>>,
      <<<<"secretnc", "KEY">>>>,
      <<<<"bad", "">>>> }

ReifyFiles ==
    {File(c) : c \in TemplateBytes}
    \cup {ReadOnly(<<<<"key", "k">>>>), Unreadable(Txt("1"))}

\* The states of the store file: missing, two contents, unreadable, and a
\* directory where the file should be.
EnvTrees ==
    { NoTree,
      EnvPath :> File(Txt("KEY=abc")),
      EnvPath :> File(Txt("OTHER=x")),
      EnvPath :> Unreadable(Txt("KEY=abc")),
      (EnvPath \o <<"x">>) :> File(Txt("1")) }

\* The tree of the test of the store's location: a store at the root and
\* another next to the file.
SubdirEnvTree ==
    (EnvPath :> File(Txt("KEY=abc")))
    @@ (<<"c", ".env">> :> File(Txt("KEY=sub")))
    @@ (<<"c", "x">> :> File(<<<<"secret", "KEY">>>>))
    @@ (<<"a">> :> File(<<<<"text", "value = ">>, <<"secret", "KEY">>>>))

ReifyTrees ==
    {e @@ t : e \in EnvTrees,
              t \in TreesOver(ReifyPaths \ {EnvPath}, ReifyFiles, MaxReifyFiles)}
    \cup {SubdirEnvTree}

\* viper.AllSettings(): no key, a plain value, a value that is itself
\* template text.
Contexts ==
    { <<>>,
      [k \in {"k"} |-> Txt("v")],
      [k \in {"k", "j"} |-> IF k = "k" THEN <<<<"key", "j">>>> ELSE Txt("x")] }

EditPaths == {<<"a">>, <<"c", "x">>}

EditTrees == TreesOver(EditPaths, ReifyFiles, MaxReifyFiles)

EditHomeTrees ==
    {e @@ t : e \in EnvTrees,
              t \in { NoTree,
                      <<"a">> :> File(Txt("1")),
                      <<"a">> :> ReadOnly(Txt("1")),
                      <<"c">> :> File(Txt("1")),
                      <<"c", "x">> :> File(Txt("1")) }}

InitReifyCmd ==
    /\ root \in ReifyTrees
    /\ root0 = root
    /\ useSecret \in BOOLEAN
    /\ reifyPc = "idle" /\ runs = 1
    /\ dirtyFiles = <<>>
    /\ localDir = NoTree /\ homeDir = NoTree

InitEdit ==
    /\ root = NoTree /\ root0 = NoTree
    /\ useSecret = FALSE
    /\ reifyPc = "edit" /\ runs = 0
    /\ localDir \in EditTrees
    /\ \E S \in SUBSET DOMAIN localDir : dirtyFiles = SortPaths(S)
    /\ homeDir \in EditHomeTrees

InitReify ==
    /\ InitReifyCmd \/ InitEdit
    /\ data \in Contexts
    /\ home0 = homeDir
    /\ secretFn = NoSecretFn
    /\ walkIdx = 0 /\ reifyErr = NoErr /\ root1 = NoTree
    /\ editIdx = 0 /\ tempDir = NoTree /\ committed = <<>> /\ uuids = 0
    /\ CmpIdle /\ UpdOtherIdle /\ RepoIdle

NextReify ==
    \/ ReifyCmd \/ DryRunPass \/ WritePass \/ ReifyAgain
    \/ PerformEdit \/ EditFile \/ EditReturn

SpecReify == InitReify /\ [][NextReify]_vars

(***************************************************************************)
(* The update command                                                      *)
(***************************************************************************)
Commit(id, tree) == [id |-> id, tree |-> tree]

\* The commit HEAD points to: the head of the checked-out branch.
HeadCommit == IF branch = "main" THEN mainHead ELSE forkHead

\* strings.ToLower on one character of the answer.
LowerCh(c) ==
    CASE c = "Y" -> "y"
      [] c = "E" -> "e"
      [] c = "S" -> "s"
      [] c = "N" -> "n"
      [] OTHER -> c

IsSpace(c) == c \in {" ", "\n", "\t"}

ToLower(str) == [i \in 1..Len(str) |-> LowerCh(str[i])]

RECURSIVE TrimLeft(_)
TrimLeft(str) ==
    IF str # <<>> /\ IsSpace(Head(str)) THEN TrimLeft(Tail(str)) ELSE str

RECURSIVE TrimRight(_)
TrimRight(str) ==
    IF str # <<>> /\ IsSpace(str[Len(str)])
    THEN TrimRight(SubSeq(str, 1, Len(str) - 1))
    ELSE str

\* strings.TrimSpace
TrimSpace(str) == TrimRight(TrimLeft(str))

\* The answer test of updateCmd.RunE: resp == "y" || resp == "yes".
Confirms(line) ==
    LET r == TrimSpace(ToLower(line))
    IN  r = <<"y">> \/ r = <<"y", "e", "s">>

\* copyFile(src, dst): MkdirAll of the parent, open the source, create the
\* destination, copy the bytes, then chmod to the source's mode.
CanCopy(from, to, rel) ==
    /\ \A q \in DOMAIN to : ~IsPrefix(q, rel)
    /\ CanRead(from, rel)
    /\ Stat(to, rel) # "dir"
    /\ CanWrite(to, rel)

copyFile(from, to, rel) ==
    (rel :> from[rel]) @@ to

Step(name) == trace' = Append(trace, name)

\* One call into gitops or the file system, with what it answered.
Call(name, result) == calls' = Append(calls, <<name, result>>)

\* RunE returning the error of the named step.
Fail(name) == updPc' = "failed" /\ updErr' = name

\* gitops.Push with go-git's "already up to date" passed on as an error.
Push_strict(result) ==
    IF result = "ok" THEN "nil" ELSE "error"

\* gitops.Push: what it returns for the answer of repo.Push.
Push(result) ==
    IF result = "ok" THEN "nil"
    ELSE IF result = "alreadyUpToDate" THEN "nil"
    ELSE "error"

\* gitops.Pull on the checked-out fork branch: fast-forward to origin's
\* head, or an error that the caller only prints.
PullFork(ok) ==
    IF ok
    THEN forkHead' = originFork /\ localDir' = originFork.tree
    ELSE UNCHANGED <<forkHead, localDir>>

\* gitops.Checkout(localDir, "main")
UCheckoutMain ==
    /\ updPc = "start"
    /\ \E ok \in BOOLEAN :
          IF ok
          THEN /\ branch' = "main" /\ localDir' = mainHead.tree
               /\ updPc' = "mainChecked" /\ Step("checkoutMain")
               /\ Call("checkoutMain", "ok")
               /\ UNCHANGED updErr
          ELSE /\ Fail("checkoutMain")
               /\ Call("checkoutMain", "failure")
               /\ UNCHANGED <<branch, localDir, trace>>
    /\ UNCHANGED <<homeDir, home0, forkHead, originFork, mainHead, mainID, forkID,
                   updateWait, ignorePatterns, diffs, resp, copyIdx, iters,
                   markerSeq, diffBranch>>
    /\ UNCHANGED <<originMain, errPath, cmpVars, reifyVars, checkVars, repoVars>>

\* The answers repo.Push can give: commits transferred when origin lacks the
\* head of main, nothing to push when it has it, or a failure.
PushResults ==
    IF originMain = mainHead THEN {"alreadyUpToDate", "failure"}
    ELSE {"ok", "failure"}

\* The push of main with its error dropped.
UPushMain_ignoreError ==
    /\ updPc = "mainChecked"
    /\ \E result \in PushResults :
          /\ Call("pushMain", result)
          /\ originMain' = IF result = "ok" THEN mainHead ELSE originMain
          /\ updPc' = "mainPushed" /\ Step("pushMain")
          /\ UNCHANGED updErr
    /\ UNCHANGED <<branch, localDir, homeDir, home0, forkHead, originFork, mainHead,
                   mainID, forkID, updateWait, ignorePatterns, diffs, resp, copyIdx,
                   iters, markerSeq, diffBranch>>
    /\ UNCHANGED <<errPath, cmpVars, reifyVars, checkVars, repoVars>>

\* gitops.Push(localDir): pushed, nothing to push (success), or an error.
UPushMain ==
    /\ updPc = "mainChecked"
    /\ \E result \in PushResults :
          /\ Call("pushMain", result)
          /\ originMain' = IF result = "ok" THEN mainHead ELSE originMain
          /\ IF Push(result) # "nil"
             THEN Fail("pushMain") /\ UNCHANGED trace
             ELSE updPc' = "mainPushed" /\ Step("pushMain") /\ UNCHANGED updErr
    /\ UNCHANGED <<branch, localDir, homeDir, home0, forkHead, originFork, mainHead,
                   mainID, forkID, updateWait, ignorePatterns, diffs, resp, copyIdx,
                   iters, markerSeq, diffBranch>>
    /\ UNCHANGED <<errPath, cmpVars, reifyVars, checkVars, repoVars>>

\* mainID, err := gitops.GetHeadID(localDir)
UReadMainID ==
    /\ updPc = "mainPushed"
    /\ \E ok \in BOOLEAN :
          IF ok
          THEN /\ mainID' = HeadCommit.id
               /\ updPc' = "markerRead" /\ Step("readMainID")
               /\ Call("readMainID", "ok")
               /\ UNCHANGED updErr
          ELSE /\ Fail("readMainID")
               /\ Call("readMainID", "failure")
               /\ UNCHANGED <<mainID, trace>>
    /\ UNCHANGED <<branch, localDir, homeDir, home0, forkHead, originFork, mainHead,
                   forkID, updateWait, ignorePatterns, diffs, resp, copyIdx, iters,
                   markerSeq, diffBranch>>
    /\ UNCHANGED <<originMain, errPath, cmpVars, reifyVars, checkVars, repoVars>>

\* gitops.Checkout(localDir, forkName)
UCheckoutFork ==
    /\ updPc = "markerRead"
    /\ \E ok \in BOOLEAN :
          IF ok
          THEN /\ branch' = "fork" /\ localDir' = forkHead.tree
               /\ updPc' = "forkChecked" /\ Step("checkoutFork")
               /\ Call("checkoutFork", "ok")
               /\ UNCHANGED updErr
          ELSE /\ Fail("checkoutFork")
               /\ Call("checkoutFork", "failure")
               /\ UNCHANGED <<branch, localDir, trace>>
    /\ UNCHANGED <<homeDir, home0, forkHead, originFork, mainHead, mainID, forkID,
                   updateWait, ignorePatterns, diffs, resp, copyIdx, iters,
                   markerSeq, diffBranch>>
    /\ UNCHANGED <<originMain, errPath, cmpVars, reifyVars, checkVars, repoVars>>

\* The first gitops.Pull with its error returned.
UPullFork_fatal ==
    /\ updPc = "forkChecked"
    /\ \E ok \in BOOLEAN :
          /\ PullFork(ok)
          /\ Call("pull", IF ok THEN "ok" ELSE "failure")
          /\ IF ok
             THEN /\ updPc' = IF updateWait /\ mainID # "" THEN "waitCheck" ELSE "diff"
                  /\ markerSeq' = Append(markerSeq, forkHead'.id)
                  /\ Step("pullFork")
                  /\ UNCHANGED updErr
             ELSE Fail("pull") /\ UNCHANGED <<markerSeq, trace>>
    /\ UNCHANGED <<branch, homeDir, home0, originFork, mainHead, mainID, forkID,
                   updateWait, ignorePatterns, diffs, resp, copyIdx, iters,
                   diffBranch>>
    /\ UNCHANGED <<originMain, errPath, cmpVars, reifyVars, checkVars, repoVars>>

\* The first pull followed by the wait loop whenever the flag is set.
UPullFork_waitOnFlag ==
    /\ updPc = "forkChecked"
    /\ \E ok \in BOOLEAN :
          /\ PullFork(ok)
          /\ Call("pull", IF ok THEN "ok" ELSE "failure")
    /\ markerSeq' = Append(markerSeq, forkHead'.id)
    /\ updPc' = IF updateWait THEN "waitCheck" ELSE "diff"
    /\ Step("pullFork")
    /\ UNCHANGED updErr
    /\ UNCHANGED <<branch, homeDir, home0, originFork, mainHead, mainID, forkID,
                   updateWait, ignorePatterns, diffs, resp, copyIdx, iters,
                   diffBranch>>
    /\ UNCHANGED <<originMain, errPath, cmpVars, reifyVars, checkVars, repoVars>>

\* The first gitops.Pull, whose error is only printed, then the test that
\* guards the wait loop.
UPullFork ==
    /\ updPc = "forkChecked"
    /\ \E ok \in BOOLEAN :
          /\ PullFork(ok)
          /\ Call("pull", IF ok THEN "ok" ELSE "failure")
    /\ markerSeq' = Append(markerSeq, forkHead'.id)
    /\ updPc' = IF updateWait /\ mainID # "" THEN "waitCheck" ELSE "diff"
    /\ Step("pullFork")
    /\ UNCHANGED updErr
    /\ UNCHANGED <<branch, homeDir, home0, originFork, mainHead, mainID, forkID,
                   updateWait, ignorePatterns, diffs, resp, copyIdx, iters,
                   diffBranch>>
    /\ UNCHANGED <<originMain, errPath, cmpVars, reifyVars, checkVars, repoVars>>

UWaitCheck_exitOnAny ==
    /\ updPc = "waitCheck"
    /\ \E ok \in BOOLEAN :
          IF ok
          THEN /\ forkID' = HeadCommit.id
               /\ iters' = iters + 1
               /\ updPc' = IF forkID' # "" THEN "diff" ELSE "waitSleep"
               /\ Step("readForkID")
               /\ Call("readForkID", "ok")
               /\ UNCHANGED updErr
          ELSE /\ Fail("readForkID")
               /\ Call("readForkID", "failure")
               /\ UNCHANGED <<forkID, iters, trace>>
    /\ UNCHANGED <<branch, localDir, homeDir, home0, forkHead, originFork, mainHead,
                   mainID, updateWait, ignorePatterns, diffs, resp, copyIdx,
                   markerSeq, diffBranch>>
    /\ UNCHANGED <<originMain, errPath, cmpVars, reifyVars, checkVars, repoVars>>

UWaitCheck_stale ==
    /\ updPc = "waitCheck"
    /\ \E ok \in BOOLEAN :
          IF ok
          THEN /\ forkID' = HeadCommit.id
               /\ iters' = iters + 1
               /\ updPc' = IF forkID = mainID THEN "diff" ELSE "waitSleep"
               /\ Step("readForkID")
               /\ Call("readForkID", "ok")
               /\ UNCHANGED updErr
          ELSE /\ Fail("readForkID")
               /\ Call("readForkID", "failure")
               /\ UNCHANGED <<forkID, iters, trace>>
    /\ UNCHANGED <<branch, localDir, homeDir, home0, forkHead, originFork, mainHead,
                   mainID, updateWait, ignorePatterns, diffs, resp, copyIdx,
                   markerSeq, diffBranch>>
    /\ UNCHANGED <<originMain, errPath, cmpVars, reifyVars, checkVars, repoVars>>

\* Top of the wait loop: read the fork marker, leave the loop when it equals
\* mainID.
UWaitCheck ==
    /\ updPc = "waitCheck"
    /\ \E ok \in BOOLEAN :
          IF ok
          THEN /\ forkID' = HeadCommit.id
               /\ iters' = iters + 1
               /\ updPc' = IF forkID' = mainID THEN "diff" ELSE "waitSleep"
               /\ Step("readForkID")
               /\ Call("readForkID", "ok")
               /\ UNCHANGED updErr
          ELSE /\ Fail("readForkID")
               /\ Call("readForkID", "failure")
               /\ UNCHANGED <<forkID, iters, trace>>
    /\ UNCHANGED <<branch, localDir, homeDir, home0, forkHead, originFork, mainHead,
                   mainID, updateWait, ignorePatterns, diffs, resp, copyIdx,
                   markerSeq, diffBranch>>
    /\ UNCHANGED <<originMain, errPath, cmpVars, reifyVars, checkVars, repoVars>>

\* A loop body that gives up after its second iteration and goes on to the
\* diff.
UWaitRepull_giveUp ==
    /\ updPc = "waitSleep"
    /\ Len(markerSeq) < MaxPulls
    /\ \E ok \in BOOLEAN :
          /\ PullFork(ok)
          /\ Call("pull", IF ok THEN "ok" ELSE "failure")
    /\ markerSeq' = Append(markerSeq, forkHead'.id)
    /\ updPc' = IF iters >= 2 THEN "diff" ELSE "waitCheck"
    /\ Step("sleepPull")
    /\ UNCHANGED updErr
    /\ UNCHANGED <<branch, homeDir, home0, originFork, mainHead, mainID, forkID,
                   updateWait, ignorePatterns, diffs, resp, copyIdx, iters,
                   diffBranch>>
    /\ UNCHANGED <<originMain, errPath, cmpVars, reifyVars, checkVars, repoVars>>

\* Rest of the loop body: time.Sleep(5s), then gitops.Pull again.
UWaitRepull ==
    /\ updPc = "waitSleep"
    /\ Len(markerSeq) < MaxPulls
    /\ \E ok \in BOOLEAN :
          /\ PullFork(ok)
          /\ Call("pull", IF ok THEN "ok" ELSE "failure")
    /\ markerSeq' = Append(markerSeq, forkHead'.id)
    /\ updPc' = "waitCheck"
    /\ Step("sleepPull")
    /\ UNCHANGED updErr
    /\ UNCHANGED <<branch, homeDir, home0, originFork, mainHead, mainID, forkID,
                   updateWait, ignorePatterns, diffs, resp, copyIdx, iters,
                   diffBranch>>
    /\ UNCHANGED <<originMain, errPath, cmpVars, reifyVars, checkVars, repoVars>>

\* getDiffs called without the configured ignore patterns.
UGetDiffs_noIgnores ==
    /\ updPc = "diff"
    /\ diffs' = getDiffs(localDir, homeDir, <<>>)
    /\ diffBranch' = branch
    /\ updPc' = IF Len(diffs') = 0 THEN "upToDate" ELSE "prompt"
    /\ Step("diff")
    /\ Call("getDiffs", "ok")
    /\ UNCHANGED updErr
    /\ UNCHANGED <<branch, localDir, homeDir, home0, forkHead, originFork, mainHead,
                   mainID, forkID, updateWait, ignorePatterns, resp, copyIdx, iters,
                   markerSeq>>
    /\ UNCHANGED <<originMain, errPath, cmpVars, reifyVars, checkVars, repoVars>>

\* getDiffs followed by the prompt whatever it found.
UGetDiffs_alwaysPrompt ==
    /\ updPc = "diff"
    /\ diffs' = getDiffs(localDir, homeDir, ignorePatterns)
    /\ diffBranch' = branch
    /\ updPc' = "prompt"
    /\ Step("diff")
    /\ Call("getDiffs", "ok")
    /\ UNCHANGED updErr
    /\ UNCHANGED <<branch, localDir, homeDir, home0, forkHead, originFork, mainHead,
                   mainID, forkID, updateWait, ignorePatterns, resp, copyIdx, iters,
                   markerSeq>>
    /\ UNCHANGED <<originMain, errPath, cmpVars, reifyVars, checkVars, repoVars>>

\* diffs, err := getDiffs(localDir, homeDir, ignorePatterns); an empty list
\* ends the command with "Everything is up to date."
UGetDiffs ==
    /\ updPc = "diff"
    /\ diffs' = getDiffs(localDir, homeDir, ignorePatterns)
    /\ diffBranch' = branch
    /\ updPc' = IF Len(diffs') = 0 THEN "upToDate" ELSE "prompt"
    /\ Step("diff")
    /\ Call("getDiffs", "ok")
    /\ UNCHANGED updErr
    /\ UNCHANGED <<branch, localDir, homeDir, home0, forkHead, originFork, mainHead,
                   mainID, forkID, updateWait, ignorePatterns, resp, copyIdx, iters,
                   markerSeq>>
    /\ UNCHANGED <<originMain, errPath, cmpVars, reifyVars, checkVars, repoVars>>

\* What ReadString returns at the prompt: a line, the text before the input
\* ended or the read failed, or nothing.
Answers ==
    { <<"y", "\n">>,
      <<"Y", "E", "S", "\n">>,
      <<" ", "y", " ", "\n">>,
      <<"n", "\n">>,
      <<"y", "e", "\n">>,
      <<"\n">>,
      <<"y">>,
      <<"n">>,
      <<>> }

\* reader.ReadString('\n') returns a nil error only for a line that ends
\* with the delimiter; otherwise it returns what it read and the error.
ReadOk(line) == line # <<>> /\ line[Len(line)] = "\n"

UConfirm_alwaysYes ==
    /\ updPc = "prompt"
    /\ \E line \in Answers :
          /\ resp' = line
          /\ updPc' = "copy" /\ copyIdx' = 1
    /\ Step("confirm")
    /\ Call("readLine", IF ReadOk(resp') THEN "ok" ELSE "failure")
    /\ UNCHANGED updErr
    /\ UNCHANGED <<branch, localDir, homeDir, home0, forkHead, originFork, mainHead,
                   mainID, forkID, updateWait, ignorePatterns, diffs, iters,
                   markerSeq, diffBranch>>
    /\ UNCHANGED <<originMain, errPath, cmpVars, reifyVars, checkVars, repoVars>>

\* The prompt: read a line, trim and lower-case it, go on only for y or yes.
UConfirm ==
    /\ updPc = "prompt"
    /\ \E line \in Answers :
          /\ resp' = line
          /\ IF Confirms(line)
             THEN updPc' = "copy" /\ copyIdx' = 1
             ELSE updPc' = "aborted" /\ UNCHANGED copyIdx
    /\ Step("confirm")
    /\ Call("readLine", IF ReadOk(resp') THEN "ok" ELSE "failure")
    /\ UNCHANGED updErr
    /\ UNCHANGED <<branch, localDir, homeDir, home0, forkHead, originFork, mainHead,
                   mainID, forkID, updateWait, ignorePatterns, diffs, iters,
                   markerSeq, diffBranch>>
    /\ UNCHANGED <<originMain, errPath, cmpVars, reifyVars, checkVars, repoVars>>

\* A copy loop that goes on to the next entry after a failed copy.
UCopyFile_skipFailed ==
    /\ updPc = "copy"
    /\ LET rel == diffs[copyIdx]
       IN  /\ copyIdx' = copyIdx + 1
           /\ updPc' = IF copyIdx = Len(diffs) THEN "applied" ELSE "copy"
           /\ Step("copy")
           /\ UNCHANGED <<updErr, errPath>>
           /\ IF CanCopy(localDir, homeDir, rel)
              THEN /\ homeDir' = copyFile(localDir, homeDir, rel)
                   /\ Call("copyFile", "ok")
              ELSE /\ Call("copyFile", "failure")
                   /\ UNCHANGED homeDir
    /\ UNCHANGED <<branch, localDir, home0, forkHead, originFork, mainHead, mainID,
                   forkID, updateWait, ignorePatterns, diffs, resp, iters,
                   markerSeq, diffBranch>>
    /\ UNCHANGED <<originMain, cmpVars, reifyVars, checkVars, repoVars>>

\* One round of the copy loop over diffs; a failed copy returns
\* "failed to update <rel>".
UCopyFile ==
    /\ updPc = "copy"
    /\ LET rel == diffs[copyIdx]
       IN  IF CanCopy(localDir, homeDir, rel)
           THEN /\ homeDir' = copyFile(localDir, homeDir, rel)
                /\ copyIdx' = copyIdx + 1
                /\ updPc' = IF copyIdx = Len(diffs) THEN "applied" ELSE "copy"
                /\ Step("copy")
                /\ Call("copyFile", "ok")
                /\ UNCHANGED <<updErr, errPath>>
           ELSE /\ Fail("copyFile")
                /\ errPath' = rel
                /\ Call("copyFile", "failure")
                /\ UNCHANGED <<homeDir, copyIdx, trace>>
    /\ UNCHANGED <<branch, localDir, home0, forkHead, originFork, mainHead, mainID,
                   forkID, updateWait, ignorePatterns, diffs, resp, iters,
                   markerSeq, diffBranch>>
    /\ UNCHANGED <<originMain, cmpVars, reifyVars, checkVars, repoVars>>

(***************************************************************************)
(* The check command                                                       *)
(***************************************************************************)
\* What no step of check assigns.
checkFrame == <<homeDir, home0, originFork, originMain, mainID, forkID, updateWait,
                ignorePatterns, diffs, resp, copyIdx, trace, iters, markerSeq,
                diffBranch, errPath, checkFlagLocal, checkFlagFull, checkFlagAll,
                checkData, cmpVars, reifyVars, repoVars>>

\* gitops.Pull on the branch that is checked out: a fast-forward to origin's
\* head of that branch; "already up to date" is not an error.
Pull(ok) ==
    IF ok /\ branch = "fork"
    THEN forkHead' = originFork /\ localDir' = originFork.tree
         /\ UNCHANGED mainHead
    ELSE UNCHANGED <<forkHead, localDir, mainHead>>

\* Step 1: the pull, skipped with --local; its failure is only printed.
CPull ==
    /\ updPc = "check"
    /\ IF checkFlagLocal
       THEN UNCHANGED <<forkHead, localDir, mainHead, calls>>
       ELSE \E ok \in BOOLEAN :
               /\ Pull(ok)
               /\ Call("check:pull", IF ok THEN "ok" ELSE "failure")
    /\ updPc' = "checkPulled"
    /\ UNCHANGED <<branch, updErr, checkTemp, localStatus, templateStatus>>
    /\ UNCHANGED checkFrame

\* Step 2, first half: gitops.Checkout(localDir, forkName).
CCheckoutFork ==
    /\ updPc = "checkPulled"
    /\ \E ok \in BOOLEAN :
          IF ok
          THEN /\ branch' = "fork" /\ localDir' = forkHead.tree
               /\ updPc' = "checkOnFork"
               /\ Call("check:checkoutFork", "ok")
               /\ UNCHANGED updErr
          ELSE /\ Fail("check:checkoutFork")
               /\ Call("check:checkoutFork", "failure")
               /\ UNCHANGED <<branch, localDir>>
    /\ UNCHANGED <<forkHead, mainHead, checkTemp, localStatus, templateStatus>>
    /\ UNCHANGED checkFrame

\* Step 2, second half: compareDirs(localDir, homeDir, ...); without --full
\* RunE returns nil after it.
CCompareHome ==
    /\ updPc = "checkOnFork"
    /\ localStatus' = compareDirs(localDir, homeDir, ignorePatterns, checkFlagAll)
    /\ updPc' = IF checkFlagFull THEN "checkFull" ELSE "checked"
    /\ Call("check:compareDirs", "ok")
    /\ UNCHANGED <<branch, localDir, forkHead, mainHead, updErr, checkTemp,
                   templateStatus>>
    /\ UNCHANGED checkFrame

\* Step 3: gitops.Checkout(localDir, "main").
CCheckoutMain ==
    /\ updPc = "checkFull"
    /\ \E ok \in BOOLEAN :
          IF ok
          THEN /\ branch' = "main" /\ localDir' = mainHead.tree
               /\ updPc' = "checkOnMain"
               /\ Call("check:checkoutMain", "ok")
               /\ UNCHANGED updErr
          ELSE /\ Fail("check:checkoutMain")
               /\ Call("check:checkoutMain", "failure")
               /\ UNCHANGED <<branch, localDir>>
    /\ UNCHANGED <<forkHead, mainHead, checkTemp, localStatus, templateStatus>>
    /\ UNCHANGED checkFrame

\* The walk over the working copy: ReifyFile of every file outside .git into
\* the same relative path of the destination, stopping at the first error.
RECURSIVE ReifyWalk(_, _, _, _, _)
ReifyWalk(srcTree, destTree, files, d, fn) ==
    IF files = <<>> THEN [err |-> NoErr, tree |-> destTree]
    ELSE LET res == ReifyFile(srcTree, destTree, Head(files), Head(files), d, fn)
         IN  IF res.err.kind # "none" THEN res
             ELSE ReifyWalk(srcTree, res.tree, Tail(files), d, fn)

\* The walk of the full comparison rendering the working copy onto itself.
CReifyMain_inPlace ==
    /\ updPc = "checkOnMain"
    /\ \E made \in BOOLEAN :
          IF ~made
          THEN /\ Fail("check:mkdirTemp")
               /\ Call("check:mkdirTemp", "failure")
               /\ UNCHANGED <<checkTemp, localDir>>
          ELSE LET res == ReifyWalk(localDir, localDir, WalkFiles(localDir),
                                    checkData, PassThrough)
               IN  IF res.err.kind # "none"
                   THEN /\ Fail("check:reifyMain")
                        /\ Call("check:reifyMain", "failure")
                        /\ localDir' = res.tree
                        /\ UNCHANGED checkTemp
                   ELSE /\ localDir' = res.tree
                        /\ checkTemp' = res.tree
                        /\ updPc' = "checkReified"
                        /\ Call("check:reifyMain", "ok")
                        /\ UNCHANGED updErr
    /\ UNCHANGED <<branch, forkHead, mainHead, localStatus, templateStatus>>
    /\ UNCHANGED checkFrame

\* Step 3: os.MkdirTemp, then main rendered into the scratch directory with
\* the pass-through resolver; the deferred RemoveAll runs on the error return.
CReifyMain ==
    /\ updPc = "checkOnMain"
    /\ \E made \in BOOLEAN :
          IF ~made
          THEN /\ Fail("check:mkdirTemp")
               /\ Call("check:mkdirTemp", "failure")
               /\ UNCHANGED checkTemp
          ELSE LET res == ReifyWalk(localDir, NoTree, WalkFiles(localDir),
                                    checkData, PassThrough)
               IN  IF res.err.kind # "none"
                   THEN /\ Fail("check:reifyMain")
                        /\ Call("check:reifyMain", "failure")
                        /\ checkTemp' = NoTree
                   ELSE /\ checkTemp' = res.tree
                        /\ updPc' = "checkReified"
                        /\ Call("check:reifyMain", "ok")
                        /\ UNCHANGED updErr
    /\ UNCHANGED <<branch, localDir, forkHead, mainHead, localStatus, templateStatus>>
    /\ UNCHANGED checkFrame

\* The second checkout of the fork with its error only printed.
CReturnToFork_ignoreFailure ==
    /\ updPc = "checkReified"
    /\ \E ok \in BOOLEAN :
          IF ok
          THEN /\ branch' = "fork" /\ localDir' = forkHead.tree
               /\ Call("check:checkoutFork", "ok")
          ELSE /\ Call("check:checkoutFork", "failure")
               /\ UNCHANGED <<branch, localDir>>
    /\ updPc' = "checkOnForkAgain"
    /\ UNCHANGED <<updErr, checkTemp>>
    /\ UNCHANGED <<forkHead, mainHead, localStatus, templateStatus>>
    /\ UNCHANGED checkFrame

\* The full comparison going on without the second checkout of the fork.
CReturnToFork_stayOnMain ==
    /\ updPc = "checkReified"
    /\ updPc' = "checkOnForkAgain"
    /\ Call("check:checkoutFork", "ok")
    /\ UNCHANGED <<branch, localDir, updErr, checkTemp>>
    /\ UNCHANGED <<forkHead, mainHead, localStatus, templateStatus>>
    /\ UNCHANGED checkFrame

\* Step 3: gitops.Checkout(localDir, forkName) again.
CReturnToFork ==
    /\ updPc = "checkReified"
    /\ \E ok \in BOOLEAN :
          IF ok
          THEN /\ branch' = "fork" /\ localDir' = forkHead.tree
               /\ updPc' = "checkOnForkAgain"
               /\ Call("check:checkoutFork", "ok")
               /\ UNCHANGED <<updErr, checkTemp>>
          ELSE /\ Fail("check:checkoutFork")
               /\ Call("check:checkoutFork", "failure")
               /\ checkTemp' = NoTree
               /\ UNCHANGED <<branch, localDir>>
    /\ UNCHANGED <<forkHead, mainHead, localStatus, templateStatus>>
    /\ UNCHANGED checkFrame

\* Step 3: compareDirs(tempDir, localDir, ...), then return nil; the deferred
\* RemoveAll deletes the scratch directory.
CCompareTemplate ==
    /\ updPc = "checkOnForkAgain"
    /\ templateStatus' = compareDirs(checkTemp, localDir, ignorePatterns, checkFlagAll)
    /\ checkTemp' = NoTree
    /\ updPc' = "checked"
    /\ Call("check:compareDirs", "ok")
    /\ UNCHANGED <<branch, localDir, forkHead, mainHead, updErr, localStatus>>
    /\ UNCHANGED checkFrame

ForkTree1 == (<<"a">> :> File(Txt("1")))
ForkTree2 == (<<"a">> :> File(Txt("2"))) @@ (<<"b">> :> File(Txt("1")))

Markers == {"", "m1", "m2"}

ForkCommits == {Commit("", ForkTree1), Commit("m1", ForkTree1), Commit("m2", ForkTree2)}

HomeTrees ==
    { NoTree,
      ForkTree1,
      (<<"a">> :> File(Txt("1"))) @@ (<<"b">> :> File(Txt("2"))),
      (<<"a">> :> ReadOnly(Txt("1"))),
      (<<"a">> :> File(Txt("1"))) @@ (<<"b">> :> ReadOnly(Txt("2"))) }

\* Another machine pushes the fork branch to origin while update runs; only
\* the pushes that land before a pull are seen by the run.
RemoteForkPush ==
    /\ updPc \in {"forkChecked", "waitSleep"}
    /\ \E c \in ForkCommits \ {originFork} : originFork' = c
    /\ UNCHANGED <<updPc, branch, localDir, homeDir, home0, forkHead, mainHead,
                   mainID, forkID, updateWait, ignorePatterns, diffs, resp, copyIdx,
                   trace, iters, markerSeq, diffBranch, updErr, calls>>
    /\ UNCHANGED <<originMain, errPath, cmpVars, reifyVars, checkVars, repoVars>>

CheckIdle ==
    /\ checkFlagLocal = FALSE /\ checkFlagFull = FALSE /\ checkFlagAll = FALSE
    /\ checkData = NoTree /\ checkTemp = NoTree
    /\ localStatus = <<>> /\ templateStatus = <<>>

InitUpdateCmd ==
    /\ updPc = "start"
    /\ branch \in {"main", "fork"}
    /\ mainHead \in {Commit(id, ForkTree1) : id \in Markers}
    /\ forkHead \in ForkCommits
    /\ originFork \in ForkCommits
    /\ originMain \in {mainHead, Commit("", NoTree)}
    /\ localDir = HeadCommit.tree
    /\ homeDir \in HomeTrees
    /\ home0 = homeDir
    /\ updateWait \in BOOLEAN
    /\ ignorePatterns \in {<<>>, << <<"b">> >>}
    /\ mainID = "" /\ forkID = "" /\ diffs = <<>> /\ resp = <<>> /\ copyIdx = 0
    /\ trace = <<>> /\ iters = 0 /\ markerSeq = <<>> /\ diffBranch = ""
    /\ updErr = "" /\ calls = <<>> /\ errPath = <<>>
    /\ CheckIdle /\ CmpIdle /\ ReifyIdle /\ RepoIdle

\* The trees of the main branch: plain text, a configuration key, a secret
\* tag in each spelling next to a plain file, text that does not parse, and a
\* file below .git.
MainTrees ==
    { <<"a">> :> File(Txt("1")),
      <<"a">> :> File(<<<<"key", "k">>>>),
      (<<"a">> :> File(<<<<"text", "value = ">>, <<"secret", "KEY">>>>))
          @@ (<<"b">> :> File(Txt("1"))),
      <<"a">> :> File(<<<<"secretnc", "KEY">>>>),
      (<<"a">> :> File(Txt("1"))) @@ (<<"b">> :> File(<<<<"bad", "">>>>)),
      (<<"a">> :> File(Txt("2"))) @@ (<<".git", "x">> :> File(Txt("1"))) }

InitCheck ==
    /\ updPc = "check"
    /\ branch \in {"main", "fork"}
    /\ mainHead \in {Commit("m1", t) : t \in MainTrees}
    /\ forkHead \in ForkCommits
    /\ originFork \in ForkCommits
    /\ originMain = mainHead
    /\ localDir = HeadCommit.tree
    /\ homeDir \in HomeTrees
    /\ home0 = homeDir
    /\ checkFlagLocal \in BOOLEAN /\ checkFlagFull \in BOOLEAN
    /\ checkFlagAll \in BOOLEAN
    /\ checkData \in Contexts
    /\ checkTemp = NoTree /\ localStatus = <<>> /\ templateStatus = <<>>
    /\ updateWait = FALSE
    /\ ignorePatterns \in {<<>>, << <<"b">> >>}
    /\ mainID = "" /\ forkID = "" /\ diffs = <<>> /\ resp = <<>> /\ copyIdx = 0
    /\ trace = <<>> /\ iters = 0 /\ markerSeq = <<>> /\ diffBranch = ""
    /\ updErr = "" /\ calls = <<>> /\ errPath = <<>>
    /\ CmpIdle /\ ReifyIdle /\ RepoIdle

InitUpdate == InitUpdateCmd \/ InitCheck

NextUpdate ==
    \/ UCheckoutMain \/ UPushMain \/ UReadMainID \/ UCheckoutFork \/ UPullFork
    \/ UWaitCheck \/ UWaitRepull \/ UGetDiffs \/ UConfirm \/ UCopyFile
    \/ RemoteForkPush
    \/ CPull \/ CCheckoutFork \/ CCompareHome \/ CCheckoutMain \/ CReifyMain
    \/ CReturnToFork \/ CCompareTemplate

SpecUpdate == InitUpdate /\ [][NextUpdate]_vars

(***************************************************************************)
(* The add, edit and remove commands                                       *)
(***************************************************************************)
MaxArgs == 2

\* What add, edit and remove leave alone outside their own state.
repoFrame == <<cmpVars, root, root0, data, useSecret, secretFn, walkIdx,
               runs, root1, editIdx, tempDir, updPc, forkHead, originFork,
               mainHead, mainID, forkID, updateWait, ignorePatterns, diffs, resp,
               copyIdx, trace, iters, markerSeq, diffBranch, updErr, calls,
               originMain, errPath, checkVars, home0, args, addWithEdit,
               removeLocal, confirm, markerVars, gitVars>>

RepoFail(name) == repoPc' = "failed" /\ repoErr' = name

Event(ev, rel, line) == [ev |-> ev, path |-> rel, line |-> line]

\* Step 2 of add and of remove: gitops.Checkout(localDir, "main").
RepoCheckoutMain(next) ==
    \E ok \in BOOLEAN :
        IF ok
        THEN /\ branch' = "main" /\ localDir' = mainHead.tree
             /\ repoPc' = next /\ argIdx' = 1
             /\ UNCHANGED repoErr
        ELSE /\ RepoFail("checkoutMain")
             /\ UNCHANGED <<branch, localDir, argIdx>>

AddCmd ==
    /\ repoPc = "add"
    /\ RepoCheckoutMain("addFiles")
    /\ UNCHANGED <<homeDir, relPaths, stdin, opened, events, reifyPc, reifyErr, dirtyFiles,
                   committed, uuids>>
    /\ UNCHANGED repoFrame

\* The loop body of add that copies over a file the repository already has.
AddFile_overwrite ==
    /\ repoPc = "addFiles"
    /\ LET rel == args[argIdx]
           st == Stat(localDir, rel)
       IN  IF st \in {"dir", "enotdir"}
           THEN RepoFail("stat") /\ UNCHANGED <<localDir, relPaths, argIdx>>
           ELSE IF ~CanCopy(homeDir, localDir, rel)
           THEN RepoFail("copy") /\ UNCHANGED <<localDir, relPaths, argIdx>>
           ELSE /\ localDir' = copyFile(homeDir, localDir, rel)
                /\ relPaths' = Append(relPaths, rel)
                /\ argIdx' = argIdx + 1
                /\ repoPc' = IF argIdx = Len(args) THEN "addPost" ELSE "addFiles"
                /\ UNCHANGED repoErr
    /\ UNCHANGED <<branch, homeDir, stdin, opened, events, reifyPc, reifyErr, dirtyFiles,
                   committed, uuids>>
    /\ UNCHANGED repoFrame

\* Step 3 of add, for one argument: the path must not exist in the
\* repository; then the home file is copied to it.
AddFile ==
    /\ repoPc = "addFiles"
    /\ LET rel == args[argIdx]
           st == Stat(localDir, rel)
       IN  IF st \in {"file", "dir"}
           THEN RepoFail("exists") /\ UNCHANGED <<localDir, relPaths, argIdx>>
           ELSE IF ~IsNotExist(st)
           THEN RepoFail("stat") /\ UNCHANGED <<localDir, relPaths, argIdx>>
           ELSE IF ~CanCopy(homeDir, localDir, rel)
           THEN RepoFail("copy") /\ UNCHANGED <<localDir, relPaths, argIdx>>
           ELSE /\ localDir' = copyFile(homeDir, localDir, rel)
                /\ relPaths' = Append(relPaths, rel)
                /\ argIdx' = argIdx + 1
                /\ repoPc' = IF argIdx = Len(args) THEN "addPost" ELSE "addFiles"
                /\ UNCHANGED repoErr
    /\ UNCHANGED <<branch, homeDir, stdin, opened, events, reifyPc, reifyErr, dirtyFiles,
                   committed, uuids>>
    /\ UNCHANGED repoFrame

\* Step 4 of add: with --edit the files go to PerformEdit, otherwise to the
\* commit loop.
AddPost ==
    /\ repoPc = "addPost"
    /\ IF addWithEdit
       THEN repoPc' = "addEditing" /\ reifyPc' = "editor" /\ UNCHANGED argIdx
       ELSE repoPc' = "addCommit" /\ argIdx' = 1 /\ UNCHANGED reifyPc
    /\ UNCHANGED <<branch, localDir, homeDir, relPaths, stdin, repoErr, opened,
                   events, reifyErr, dirtyFiles, committed, uuids>>
    /\ UNCHANGED repoFrame

\* Step 5 of add, for one file: GenerateCommitMessage and CommitFile.
AddCommit ==
    /\ repoPc = "addCommit"
    /\ LET rel == relPaths[argIdx]
           msg == GenerateCommitMessage(AddMessage(rel), uuidNew)
       IN  /\ uuids' = uuids + 1
           /\ \E commitOk \in BOOLEAN :
                 IF commitOk
                 THEN /\ committed' = Append(committed, CommitFile(rel, msg))
                      /\ events' = Append(events, Event("commit", rel, <<>>))
                      /\ argIdx' = argIdx + 1
                      /\ repoPc' = IF argIdx = Len(relPaths) THEN "done"
                                   ELSE "addCommit"
                      /\ UNCHANGED repoErr
                 ELSE /\ RepoFail("commit")
                      /\ UNCHANGED <<committed, events, argIdx>>
    /\ UNCHANGED <<branch, localDir, homeDir, relPaths, stdin, opened, reifyPc,
                   reifyErr, dirtyFiles>>
    /\ UNCHANGED repoFrame

\* editCmd.RunE: the arguments become paths in the working copy and go to
\* PerformEdit.
EditCmd ==
    /\ repoPc = "edit"
    /\ relPaths' = args
    /\ repoPc' = "editing" /\ reifyPc' = "editor"
    /\ UNCHANGED <<branch, localDir, homeDir, argIdx, stdin, repoErr, opened,
                   events, reifyErr, dirtyFiles, committed, uuids>>
    /\ UNCHANGED repoFrame

\* The contents an editor session leaves in a file it changed.
EditedBytes == {Txt("2"), <<<<"key", "k">>>>}

Edited(tree, S, c) ==
    [rel \in (DOMAIN tree \cup S) |->
        IF rel \notin S THEN tree[rel]
        ELSE IF rel \in DOMAIN tree THEN [tree[rel] EXCEPT !.data = c]
        ELSE File(c)]

\* PerformEdit up to "Checking for changes": the editor is run on the files of
\* the working copy and PerformEdit returns if it exits with an error; then
\* IsDirty picks the files to process. A file the editor changed is dirty;
\* for the others the answer is go-git's.
RunEditor ==
    /\ reifyPc = "editor"
    /\ opened' = [i \in 1..Len(relPaths) |->
                     [path |-> relPaths[i], branch |-> branch,
                      file |-> At(localDir, relPaths[i])]]
    /\ \E S \in SUBSET {relPaths[i] : i \in 1..Len(relPaths)} :
       \E D \in SUBSET {relPaths[i] : i \in 1..Len(relPaths)} :
       \E c \in EditedBytes :
          /\ S \subseteq D
          /\ \A rel \in S : Stat(localDir, rel) \in {"file", "enoent"}
                              /\ At(localDir, rel).data # c
          /\ localDir' = Edited(localDir, S, c)
          /\ \E exitOk \in BOOLEAN :
                IF exitOk
                THEN /\ reifyPc' = "edit"
                     /\ dirtyFiles' = SelectSeq(relPaths, LAMBDA rel : rel \in D)
                     /\ UNCHANGED reifyErr
                ELSE /\ reifyPc' = "edited"
                     /\ reifyErr' = Err("editor", <<>>, "exit")
                     /\ UNCHANGED dirtyFiles
    /\ UNCHANGED <<branch, homeDir, repoPc, argIdx, relPaths, stdin, repoErr,
                   events, committed, uuids>>
    /\ UNCHANGED repoFrame

RemoveCmd ==
    /\ repoPc = "remove"
    /\ RepoCheckoutMain("removeFiles")
    /\ UNCHANGED <<homeDir, relPaths, stdin, opened, events, reifyPc, reifyErr, dirtyFiles,
                   committed, uuids>>
    /\ UNCHANGED repoFrame

\* viper.GetBool("scadufax.confirm"), true when the key is not set.
ConfirmSetting == IF confirm = "unset" THEN TRUE ELSE confirm = "true"

\* The tree without the file at rel.
Without(tree, rel) == [p \in DOMAIN tree \ {rel} |-> tree[p]]

\* os.Remove(absPath) works on a file that is there.
CanRemove(home, rel) == rel \in DOMAIN home

\* What a new bufio.Reader leaves on standard input after ReadString: the
\* rest, or nothing when it read ahead.
AfterRead(input) == IF input = <<>> THEN {<<>>} ELSE {Tail(input), <<>>}

\* Step 5 of remove for a file whose removal was committed: the prompt unless
\* confirmation is off, then os.Remove.
RemoveLocalStep(rel, more) ==
    LET line == IF stdin = <<>> THEN <<>> ELSE Head(stdin)
        ask == Event("ask", rel, line)
        del == Event("delete", rel, <<>>)
        done == IF more THEN "removeFiles" ELSE "done"
    IN  IF ~removeLocal
        THEN /\ repoPc' = done
             /\ events' = events \o <<Event("commit", rel, <<>>)>>
             /\ UNCHANGED <<homeDir, stdin, repoErr>>
        ELSE IF ConfirmSetting /\ ~ReadOk(line)
        THEN /\ RepoFail("readInput")
             /\ events' = events \o <<Event("commit", rel, <<>>), ask>>
             /\ stdin' = <<>>
             /\ UNCHANGED homeDir
        ELSE IF ConfirmSetting /\ ~Confirms(line)
        THEN /\ repoPc' = done
             /\ events' = events \o <<Event("commit", rel, <<>>), ask>>
             /\ stdin' \in AfterRead(stdin)
             /\ UNCHANGED <<homeDir, repoErr>>
        ELSE /\ IF ConfirmSetting THEN stdin' \in AfterRead(stdin)
                ELSE UNCHANGED stdin
             /\ IF CanRemove(homeDir, rel)
                THEN /\ homeDir' = Without(homeDir, rel)
                     /\ repoPc' = done
                     /\ events' = events \o <<Event("commit", rel, <<>>)>>
                                   \o (IF ConfirmSetting THEN <<ask>> ELSE <<>>)
                                   \o <<del>>
                     /\ UNCHANGED repoErr
                ELSE /\ RepoFail("removeLocal")
                     /\ events' = events \o <<Event("commit", rel, <<>>)>>
                                   \o (IF ConfirmSetting THEN <<ask>> ELSE <<>>)
                     /\ UNCHANGED homeDir

\* The loop body of remove deleting the home file without asking.
RemoveFile_noPrompt ==
    /\ repoPc = "removeFiles"
    /\ LET rel == args[argIdx]
           more == argIdx < Len(args)
       IN  /\ argIdx' = argIdx + 1
           /\ IF IsNotExist(Stat(localDir, rel))
              THEN /\ repoPc' = IF more THEN "removeFiles" ELSE "done"
                   /\ events' = Append(events, Event("skip", rel, <<>>))
                   /\ UNCHANGED <<localDir, homeDir, stdin, repoErr, committed, uuids>>
              ELSE \E removed \in {ok \in BOOLEAN : ok => rel \in DOMAIN localDir} :
                   IF ~removed
                   THEN /\ RepoFail("remove")
                        /\ UNCHANGED <<localDir, homeDir, stdin, events, committed,
                                       uuids>>
                   ELSE /\ localDir' = Without(localDir, rel)
                        /\ uuids' = uuids + 1
                        /\ \E commitOk \in BOOLEAN :
                              IF ~commitOk
                              THEN /\ RepoFail("commit")
                                   /\ UNCHANGED <<homeDir, stdin, events, committed>>
                              ELSE /\ committed' = Append(committed,
                                          CommitFile(rel, GenerateCommitMessage(
                                              RemoveMessage(rel), uuidNew)))
                                   /\ IF removeLocal /\ CanRemove(homeDir, rel)
                                      THEN homeDir' = Without(homeDir, rel)
                                      ELSE UNCHANGED homeDir
                                   /\ repoPc' = IF more THEN "removeFiles" ELSE "done"
                                   /\ events' = Append(events, Event("commit", rel, <<>>))
                                   /\ UNCHANGED <<stdin, repoErr>>
    /\ UNCHANGED <<branch, relPaths, opened, reifyPc, reifyErr, dirtyFiles>>
    /\ UNCHANGED repoFrame

\* Steps 3 to 5 of remove, for one argument: a file the repository lacks is
\* skipped; otherwise gitops.Remove, the commit, then the local removal.
RemoveFile ==
    /\ repoPc = "removeFiles"
    /\ LET rel == args[argIdx]
           more == argIdx < Len(args)
       IN  /\ argIdx' = argIdx + 1
           /\ IF IsNotExist(Stat(localDir, rel))
              THEN /\ repoPc' = IF more THEN "removeFiles" ELSE "done"
                   /\ events' = Append(events, Event("skip", rel, <<>>))
                   /\ UNCHANGED <<localDir, homeDir, stdin, repoErr, committed, uuids>>
              ELSE \E removed \in {ok \in BOOLEAN : ok => rel \in DOMAIN localDir} :
                   IF ~removed
                   THEN /\ RepoFail("remove")
                        /\ UNCHANGED <<localDir, homeDir, stdin, events, committed,
                                       uuids>>
                   ELSE /\ localDir' = Without(localDir, rel)
                        /\ uuids' = uuids + 1
                        /\ \E commitOk \in BOOLEAN :
                              IF ~commitOk
                              THEN /\ RepoFail("commit")
                                   /\ UNCHANGED <<homeDir, stdin, events, committed>>
                              ELSE /\ committed' = Append(committed,
                                          CommitFile(rel, GenerateCommitMessage(
                                              RemoveMessage(rel), uuidNew)))
                                   /\ RemoveLocalStep(rel, more)
    /\ UNCHANGED <<branch, relPaths, opened, reifyPc, reifyErr, dirtyFiles>>
    /\ UNCHANGED repoFrame

RepoMainTrees ==
    { <<"a">> :> File(Txt("1")),
      (<<"a">> :> File(<<<<"key", "k">>>>))
          @@ (<<"c", "x">> :> File(<<<<"secret", "KEY">>>>)) }

RepoForkTrees ==
    { <<"a">> :> File(Txt("2")),
      <<"b">> :> File(Txt("1")) }

RepoHomeTrees ==
    { (<<"a">> :> File(Txt("1"))) @@ (<<"b">> :> File(Txt("2")))
          @@ (<<"c", "x">> :> File(Txt("1"))),
      (EnvPath :> File(Txt("KEY=abc"))) @@ (<<"a">> :> File(Txt("1")))
          @@ (<<"c", "x">> :> File(Txt("1"))),
      <<"b">> :> Unreadable(Txt("1")) }

ArgPaths == {<<"a">>, <<"b">>, <<"c", "x">>}

SeqsUpTo(S, n) == UNION {[1..k -> S] : k \in 0..n}

\* The lines typed at remove's prompts; the input may end in the middle of
\* a line.
InputLines == {<<"y", "\n">>, <<" ", "Y", "E", "S", "\n">>, <<"n", "\n">>}

Inputs ==
    SeqsUpTo(InputLines, MaxArgs)
    \cup {Append(q, <<"y">>) : q \in SeqsUpTo(InputLines, MaxArgs - 1)}

InitRepo ==
    /\ repoPc \in {"add", "edit", "remove"}
    /\ branch \in {"main", "fork"}
    /\ mainHead \in {Commit("m1", t) : t \in RepoMainTrees}
    /\ forkHead \in {Commit("m1", t) : t \in RepoForkTrees}
    /\ originMain = [id |-> "", tree |-> NoTree]
    /\ localDir = HeadCommit.tree
    /\ homeDir \in RepoHomeTrees
    /\ home0 = homeDir
    /\ args \in SeqsUpTo(ArgPaths, MaxArgs) \ {<<>>}
    /\ addWithEdit \in (IF repoPc = "add" THEN BOOLEAN ELSE {FALSE})
    /\ removeLocal \in (IF repoPc = "remove" THEN BOOLEAN ELSE {FALSE})
    /\ confirm \in (IF removeLocal THEN {"unset", "true", "false"} ELSE {"unset"})
    /\ stdin \in (IF removeLocal THEN Inputs ELSE {<<>>})
    /\ data \in (IF repoPc = "remove" THEN {<<>>} ELSE Contexts)
    /\ argIdx = 0 /\ relPaths = <<>> /\ repoErr = "" /\ opened = <<>>
    /\ events = <<>>
    /\ root = NoTree /\ root0 = NoTree /\ useSecret = FALSE
    /\ secretFn = NoSecretFn /\ reifyPc = "off" /\ walkIdx = 0
    /\ reifyErr = NoErr /\ runs = 0 /\ root1 = NoTree
    /\ dirtyFiles = <<>> /\ editIdx = 0 /\ tempDir = NoTree /\ committed = <<>>
    /\ uuids = 0
    /\ CmpIdle /\ UpdRestIdle /\ MarkerIdle /\ GitIdle

NextRepo ==
    \/ AddCmd \/ AddFile \/ AddPost \/ AddCommit
    \/ EditCmd \/ RunEditor \/ PerformEdit \/ EditFile \/ EditReturn
    \/ RemoveCmd \/ RemoveFile

SpecRepo == InitRepo /\ [][NextRepo]_vars

(***************************************************************************)
(* The sync marker: GenerateCommitMessage and GetHeadID over bounded       *)
(* commit messages.                                                        *)
(***************************************************************************)
MaxLines == 3
MaxGenerations == 2

\* strings.Split(message, "\n")
RECURSIVE SplitLines(_)
SplitLines(msg) ==
    IF \A i \in 1..Len(msg) : msg[i] # "\n" THEN <<msg>>
    ELSE LET i == CHOOSE k \in 1..Len(msg) :
                      msg[k] = "\n" /\ \A j \in 1..(k - 1) : msg[j] # "\n"
         IN  <<SubSeq(msg, 1, i - 1)>> \o SplitLines(SubSeq(msg, i + 1, Len(msg)))

\* strings.HasPrefix(line, "SCADUFAX_ID:")
HasPrefix(line) == line # <<>> /\ line[1] = "SCADUFAX_ID:"

\* The scan that takes the first marker line it meets without trimming the
\* line before the test.
RECURSIVE ScanLines_untrimmed(_, _)
ScanLines_untrimmed(lines, i) ==
    IF i = 0 THEN <<>>
    ELSE IF HasPrefix(lines[i]) THEN TrimSpace(Tail(lines[i]))
    ELSE ScanLines_untrimmed(lines, i - 1)

\* The loop of GetHeadID from line i down to the first line: the line is
\* trimmed, tested for the prefix, and what follows the prefix is trimmed.
RECURSIVE ScanLines(_, _)
ScanLines(lines, i) ==
    IF i = 0 THEN <<>>
    ELSE LET line == TrimSpace(lines[i])
         IN  IF HasPrefix(line) THEN TrimSpace(Tail(line))
             ELSE ScanLines(lines, i - 1)

GetHeadID(msg) == ScanLines(SplitLines(msg), Len(SplitLines(msg)))

\* A new commit with the message GenerateCommitMessage makes of the message
\* of HEAD.
MGenerate ==
    /\ uuids < MaxGenerations
    /\ lastToken' = uuidNew
    /\ headMessage' = GenerateCommitMessage(headMessage, uuidNew)
    /\ uuids' = uuids + 1
    /\ headID' = [done |-> FALSE, id |-> <<>>]
    /\ UNCHANGED <<cmpVars, root, root0, data, useSecret, secretFn, reifyPc,
                   walkIdx, reifyErr, runs, root1, dirtyFiles, editIdx, tempDir,
                   committed, updVars, repoCmdVars, gitVars>>

\* GetHeadID on HEAD.
MGetHeadID ==
    /\ ~headID.done
    /\ headID' = [done |-> TRUE, id |-> GetHeadID(headMessage)]
    /\ UNCHANGED <<headMessage, lastToken>>
    /\ UNCHANGED <<cmpVars, reifyVars, updVars, repoCmdVars, gitVars>>

\* The lines of the messages: text, nothing, a marker line, an indented one,
\* one with no space after the colon, the prefix in mid-line, the prefix alone.
LineShapes ==
    { <<"fix">>,
      <<>>,
      <<"SCADUFAX_ID:", " ", "t1">>,
      <<" ", "SCADUFAX_ID:", " ", "t2", " ">>,
      <<"SCADUFAX_ID:", "t3">>,
      <<"x", "SCADUFAX_ID:", " ", "t4">>,
      <<"SCADUFAX_ID:">> }

RECURSIVE JoinLines(_)
JoinLines(lines) ==
    IF Len(lines) = 0 THEN <<>>
    ELSE IF Len(lines) = 1 THEN lines[1]
    ELSE lines[1] \o <<"\n">> \o JoinLines(Tail(lines))

Messages == {JoinLines(ls) : ls \in SeqsUpTo(LineShapes, MaxLines)}

InitMarker ==
    /\ headMessage \in Messages
    /\ lastToken = <<>>
    /\ headID = [done |-> FALSE, id |-> <<>>]
    /\ CmpIdle /\ ReifyIdle /\ UpdIdle /\ RepoCmdIdle /\ GitIdle

NextMarker == MGenerate \/ MGetHeadID

SpecMarker == InitMarker /\ [][NextMarker]_vars

(***************************************************************************)
(* Branches: CreateBranch and Checkout                                     *)
(***************************************************************************)
\* Calls made on one repository.
MaxGitOps == 3
\* Commits of one repository.
MaxCommits == 3

Branches == {"main", "fork", "dev"}

GitResult(err, head, refs) == [err |-> err, HEAD |-> head, refs |-> refs]

\* CreateBranch pointing the branch at HEAD whether it exists or not.
CreateBranch_force(refs, head, name) ==
    (name :> refs[head]) @@ refs

\* gitops.CreateBranch: nothing when refs/heads/<name> resolves, otherwise a
\* new reference to the commit of HEAD.
CreateBranch(refs, head, name) ==
    IF name \in DOMAIN refs THEN refs
    ELSE (name :> refs[head]) @@ refs

\* w.Checkout(&git.CheckoutOptions{Branch: refs/heads/<name>}): the branch
\* must resolve; HEAD is set to it, then the merge reset of the worktree
\* refuses unstaged changes.
WorktreeCheckout(refs, head, dirty, name) ==
    IF name \notin DOMAIN refs THEN GitResult("notfound", head, refs)
    ELSE IF dirty THEN GitResult("unstaged", name, refs)
    ELSE GitResult("nil", name, refs)

\* w.Checkout with Create: true and no Hash: the branch must not exist, it
\* is created at the commit of HEAD, HEAD is set to it, then the reset.
WorktreeCheckoutCreate(refs, head, dirty, name) ==
    IF name \in DOMAIN refs THEN GitResult("exists", head, refs)
    ELSE LET made == (name :> refs[head]) @@ refs
         IN  IF dirty THEN GitResult("unstaged", name, made)
             ELSE GitResult("nil", name, made)

\* gitops.Checkout: the local checkout; when it fails, the lookup of
\* refs/remotes/origin/<name>, then the checkout that creates the branch.
Checkout(refs, remotes, head, dirty, name) ==
    LET first == WorktreeCheckout(refs, head, dirty, name)
    IN  IF first.err = "nil" THEN first
        ELSE IF name \notin DOMAIN remotes
             THEN GitResult("notfound", first.HEAD, first.refs)
        ELSE WorktreeCheckoutCreate(first.refs, first.HEAD, dirty, name)

GitCall(op, name, err) ==
    /\ gitOp' = [op |-> op, name |-> name, err |-> err]
    /\ gitN' = gitN + 1

gitFrame == <<cmpVars, reifyVars, updVars, repoCmdVars, markerVars>>

\* A call of gitops.CreateBranch, as init makes for the fork.
GCreateBranch ==
    /\ gitN < MaxGitOps
    /\ \E name \in Branches :
          /\ localRefs' = CreateBranch(localRefs, HEAD, name)
          /\ createdAt' = IF name \in DOMAIN localRefs THEN createdAt
                          ELSE (name :> localRefs[HEAD]) @@ createdAt
          /\ GitCall("createBranch", name, "nil")
    /\ UNCHANGED <<remoteRefs, HEAD, unstaged>>
    /\ UNCHANGED gitFrame

\* A call of gitops.Checkout.
GCheckout ==
    /\ gitN < MaxGitOps
    /\ \E name \in Branches :
          LET res == Checkout(localRefs, remoteRefs, HEAD, unstaged, name)
          IN  /\ localRefs' = res.refs
              /\ HEAD' = res.HEAD
              /\ GitCall("checkout", name, res.err)
    /\ UNCHANGED <<remoteRefs, unstaged, createdAt>>
    /\ UNCHANGED gitFrame

\* The commits in use.
UsedCommits ==
    {localRefs[b] : b \in DOMAIN localRefs} \cup {remoteRefs[b] : b \in DOMAIN remoteRefs}

NewCommit ==
    CHOOSE c \in 1..(MaxCommits + 1) :
        /\ \A u \in UsedCommits : u < c
        /\ c = 1 \/ (c - 1) \in UsedCommits

\* gitops.CommitFile: a new commit on the branch HEAD names.
GCommit ==
    /\ gitN < MaxGitOps
    /\ NewCommit <= MaxCommits
    /\ localRefs' = [localRefs EXCEPT ![HEAD] = NewCommit]
    /\ GitCall("commit", HEAD, "nil")
    /\ UNCHANGED <<remoteRefs, HEAD, unstaged, createdAt>>
    /\ UNCHANGED gitFrame

RefsOver(S) == UNION {[T -> 1..2] : T \in SUBSET S}

InitGit ==
    /\ HEAD \in Branches
    /\ localRefs \in {r \in RefsOver(Branches) : HEAD \in DOMAIN r}
    /\ remoteRefs \in RefsOver({"fork", "dev"})
    /\ unstaged \in BOOLEAN
    /\ createdAt = NoRefs /\ gitOp = NoOp /\ gitN = 0
    /\ CmpIdle /\ ReifyIdle /\ UpdIdle /\ RepoCmdIdle /\ MarkerIdle

NextGit == GCreateBranch \/ GCheckout \/ GCommit

SpecGit == InitGit /\ [][NextGit]_vars

(***************************************************************************)
(* Properties of the comparison                                            *)
(***************************************************************************)
\* The tags the report gives a path.
TagsOf(rep, rel) == {rep[i].tag : i \in {j \in 1..Len(rep) : rep[j].path = rel}}

\* The path names a file or a directory of the tree.
Exists(tree, rel) == Stat(tree, rel) \in {"file", "dir"}

\* A path of the tree that is outside .git and matches no ignore pattern.
Considered(tree, rel) ==
    /\ rel \in DOMAIN tree
    /\ ~InGitDir(rel)
    /\ \A j \in 1..Len(ignores) : ~Match(ignores[j], rel)

BytesDifferOrUnreadable(rel) ==
    \/ ~CanRead(sourceDir, rel)
    \/ ~CanRead(targetDir, rel)
    \/ sourceDir[rel].data # targetDir[rel].data

\* C6 (as claimed): every considered source path is reported New when it does
\* not exist under the target, Modified when it exists there and the bytes
\* differ or a side cannot be read, and not at all otherwise, whatever checkAll.
C6_SourceClassification ==
    "compareDirs" \in cmpPc =>
        \A rel \in DOMAIN sourceDir :
            Considered(sourceDir, rel) =>
                LET tags == TagsOf(report, rel) \ {"D"}
                IN  IF ~Exists(targetDir, rel) THEN tags = {"N"}
                    ELSE IF BytesDifferOrUnreadable(rel) THEN tags = {"M"}
                    ELSE tags = {}

C8_DiffExampleBA_Claimed ==
    ( /\ "compareDirs" \in cmpPc
      /\ sourceDir = TreeB /\ targetDir = TreeA
      /\ ignores = <<>> /\ ~checkAll )
    => /\ {report[i] : i \in 1..Len(report)} = {Entry("M", <<"b">>)}
       /\ Len(report) = 1

\* C8 (amended): compare(B, A, [], false) reports exactly b Modified and
\* c New; the New entry does not depend on includeDeletions.
C8_DiffExampleBA ==
    ( /\ "compareDirs" \in cmpPc
      /\ sourceDir = TreeB /\ targetDir = TreeA
      /\ ignores = <<>> /\ ~checkAll )
    => /\ {report[i] : i \in 1..Len(report)}
            = {Entry("M", <<"b">>), Entry("N", <<"c">>)}
       /\ Len(report) = 2

C8_Witness ==
    /\ "compareDirs" \in cmpPc
    /\ sourceDir = TreeB /\ targetDir = TreeA
    /\ ignores = <<>> /\ ~checkAll
    /\ Entry("N", <<"c">>) \in {report[i] : i \in 1..Len(report)}

\* C9: no path that matches an ignore pattern is in the output of compareDirs
\* or of getDiffs, whichever walk would have reported it.
C9_IgnoredNeverReported ==
    /\ \A i \in 1..Len(report) :
          \A j \in 1..Len(ignores) : ~Match(ignores[j], report[i].path)
    /\ \A i \in 1..Len(changes) :
          \A j \in 1..Len(ignores) : ~Match(ignores[j], changes[i])

\* An ignored source path that would be New, an ignored source path that
\* would be Modified or an ignored target path that would be Deleted, after
\* both walks and getDiffs ran with a second pattern doing the matching.
C9_Witness ==
    /\ cmpPc = {"compareDirs", "getDiffs"}
    /\ checkAll
    /\ Len(ignores) = 2
    /\ \E rel \in DOMAIN sourceDir :
          /\ Match(ignores[2], rel) /\ ~Match(ignores[1], rel)
          /\ Stat(targetDir, rel) = "enoent"
    /\ \E rel \in DOMAIN targetDir :
          /\ \E j \in 1..Len(ignores) : Match(ignores[j], rel)
          /\ Stat(sourceDir, rel) = "enoent"

\* C10 (as claimed): a Deleted entry exactly for each considered target path
\* that is absent under the source, only with includeDeletions, and every
\* New/Modified entry before every Deleted entry.
C10_DeletedEntries ==
    "compareDirs" \in cmpPc =>
        /\ \A rel \in DOMAIN targetDir \cup {report[i].path : i \in 1..Len(report)} :
              ("D" \in TagsOf(report, rel))
                  <=> ( /\ checkAll
                        /\ Considered(targetDir, rel)
                        /\ ~Exists(sourceDir, rel) )
        /\ \A i, j \in 1..Len(report) :
              (report[i].tag = "D" /\ report[j].tag \in {"N", "M"}) => j < i

(***************************************************************************)
(* Properties of reify                                                     *)
(***************************************************************************)
\* Reify was entered: the resolver was built.
ReifyCalled == secretFn.mode # "none"

RenderFails(tree, rel) ==
    CanRead(tree, rel) /\ ~Render(tree[rel].data, data, secretFn).ok

ProcessFails(tree, rel) == ~CanRead(tree, rel) \/ RenderFails(tree, rel)

\* The first file, in walk order, that cannot be read or rendered.
FirstFailing(tree) ==
    LET files == WalkFiles(tree)
        bad == {i \in 1..Len(files) : ProcessFails(tree, files[i])}
    IN  files[CHOOSE i \in bad : \A j \in bad : i <= j]

\* C1: when a file of the tree fails to render, reify returns an error that
\* names the first failing path (a render failure when every file before it
\* can be read) and every file has the bytes it had before the call.
C1_RenderFailureChangesNothing ==
    ( /\ reifyPc = "done"
      /\ ReifyCalled
      /\ \E i \in 1..Len(WalkFiles(root0)) : RenderFails(root0, WalkFiles(root0)[i]) )
    => /\ reifyErr.kind # "none"
       /\ reifyErr.path = FirstFailing(root0)
       /\ RenderFails(root0, reifyErr.path) <=> reifyErr.kind \in {"parse", "execute"}
       /\ root = root0

\* One file fails on a missing context key and another file, walked before
\* it, would have been rewritten to other bytes.
C1_Witness ==
    /\ reifyPc = "done"
    /\ ReifyCalled
    /\ reifyErr.kind = "execute" /\ reifyErr.cause = "missingkey"
    /\ \E rel \in DOMAIN root0 :
          /\ PathLess(rel, reifyErr.path)
          /\ ~InGitDir(rel)
          /\ Render(root0[rel].data, data, secretFn).ok
          /\ Render(root0[rel].data, data, secretFn).out # root0[rel].data

\* Every walked file holds its rendered bytes.
FullyReified ==
    \A i \in 1..Len(WalkFiles(root0)) :
        LET rel == WalkFiles(root0)[i]
            res == Render(root0[rel].data, data, secretFn)
        IN  res.ok /\ root[rel].data = res.out

\* C2 (as claimed): whatever step fails, reify returns with the tree fully
\* reified or byte-identical to its state before the call.
C2_AllOrNothing ==
    (reifyPc = "done" /\ ReifyCalled) => (root = root0 \/ FullyReified)

(***************************************************************************)
(* Properties of the secret resolver and of rendering                      *)
(***************************************************************************)
SecretKeys == {"KEY", "OTHER", "NONE"}

\* The nodes before position i execute without error.
NodesBeforeSucceed(content, i) ==
    \A j \in 1..(i - 1) :
        \/ content[j][1] = "text"
        \/ content[j][1] = "key" /\ content[j][2] \in DOMAIN data
        \/ /\ content[j][1] \in {"secret", "secretnc"}
           /\ secretFn.mode = "passthrough" \/ content[j][2] \in DOMAIN secretFn.env

Parses(content) == \A i \in 1..Len(content) : content[i][1] # "bad"

\* The first node of the template that fails is a secret lookup of a key the
\* loaded store lacks.
FailsOnAbsentSecret(content) ==
    /\ Parses(content)
    /\ secretFn.mode = "strict"
    /\ \E i \in 1..Len(content) :
          /\ content[i][1] \in {"secret", "secretnc"}
          /\ content[i][2] \notin DOMAIN secretFn.env
          /\ NodesBeforeSucceed(content, i)

\* The first node of the template that fails is a lookup of a key the
\* context lacks.
FailsOnAbsentKey(content) ==
    /\ Parses(content)
    /\ \E i \in 1..Len(content) :
          /\ content[i][1] = "key"
          /\ content[i][2] \notin DOMAIN data
          /\ NodesBeforeSucceed(content, i)

\* The file the edit loop stopped at.
EditStoppedAt(rel) ==
    /\ reifyPc = "editReturn"
    /\ secretFn.mode # "none"
    /\ editIdx <= Len(dirtyFiles)
    /\ rel = dirtyFiles[editIdx]
    /\ CanRead(localDir, rel)

\* Nothing of rel reached the temporary directory, home or the repository.
NotInstalled(rel) ==
    /\ rel \notin DOMAIN tempDir
    /\ Stat(homeDir, rel) = Stat(home0, rel)
    /\ rel \in DOMAIN home0 => homeDir[rel] = home0[rel]
    /\ \A i \in 1..Len(committed) : committed[i].path # rel

\* C11: a resolver built by GetSecretFn, required or not, answers a key its
\* store lacks with the key-not-found error and never with a value; a file
\* whose rendering reaches such a lookup fails with that error, in reify
\* --secret as in edit with no store file at all.
C11_AbsentKeyFails ==
    /\ secretFn.mode = "strict" =>
          \A key \in SecretKeys \ DOMAIN secretFn.env :
              LET res == CallSecret(secretFn, key)
              IN  ~res.ok /\ res.kind = "execute" /\ res.cause = "secret"
    /\ \A rel \in DOMAIN localDir :
          (EditStoppedAt(rel) /\ FailsOnAbsentSecret(localDir[rel].data))
          => reifyErr = Err("execute", rel, "secret") /\ NotInstalled(rel)
    /\ ( /\ reifyPc = "done" /\ ReifyCalled
         /\ \E i \in 1..Len(WalkFiles(root0)) : ProcessFails(root0, WalkFiles(root0)[i])
         /\ CanRead(root0, FirstFailing(root0))
         /\ FailsOnAbsentSecret(root0[FirstFailing(root0)].data) )
       => reifyErr = Err("execute", FirstFailing(root0), "secret") /\ root = root0

\* Edit with no .env in home stops at a template that looks up a secret.
C11_Witness ==
    /\ reifyPc = "editReturn"
    /\ Stat(home0, EnvPath) = "enoent"
    /\ secretFn.mode = "strict" /\ ~secretFn.required /\ DOMAIN secretFn.env = {}
    /\ reifyErr.kind = "execute" /\ reifyErr.cause = "secret"

\* C12: reify --secret fails with the store error whenever the .env of the
\* target cannot be read, a missing file included, before any file is
\* rendered or written; the resolver of edit is built when home has no .env
\* and fails to build on every other read failure, before any file is
\* reified, installed or committed.
C12_StoreUnreadable ==
    /\ (reifyPc \in {"dry", "write", "done"} /\ useSecret) =>
          IF ~CanRead(root0, EnvPath)
          THEN /\ reifyPc = "done"
               /\ reifyErr = Err("env", EnvPath, "unreadable")
               /\ secretFn = NoSecretFn
               /\ walkIdx = 0
               /\ root = root0
          ELSE secretFn.mode = "strict" /\ reifyErr.kind # "env"
    /\ (reifyPc \in {"editFiles", "editReturn", "edited"} /\ dirtyFiles # <<>>) =>
          IF Stat(home0, EnvPath) = "enoent"
          THEN /\ secretFn = Strict(<<>>, FALSE)
               /\ reifyErr.kind # "env"
          ELSE IF ~CanRead(home0, EnvPath)
          THEN /\ reifyErr = Err("env", EnvPath, "unreadable")
               /\ secretFn = NoSecretFn
               /\ editIdx = 0 /\ tempDir = NoTree
               /\ homeDir = home0 /\ committed = <<>>
          ELSE secretFn.mode = "strict" /\ reifyErr.kind # "env"

\* reify --secret on a tree with no .env whose files would have rendered to
\* other bytes.
C12_Witness ==
    /\ reifyPc = "done" /\ useSecret
    /\ Stat(root0, EnvPath) = "enoent"
    /\ reifyErr.kind = "env"
    /\ \E rel \in DOMAIN root0 :
          /\ ~InGitDir(rel) /\ CanRead(root0, rel)
          /\ Render(root0[rel].data, data, PassThrough).ok
          /\ Render(root0[rel].data, data, PassThrough).out # root0[rel].data

SecretsOnly(content) ==
    \A i \in 1..Len(content) : content[i][1] \in {"text", "secret", "secretnc"}

\* C13: after a successful reify --secret every file made of text and secret
\* placeholders holds its text with each placeholder replaced by the value
\* the .env at the tree root stores under the key, whatever .env lies next to
\* the file.
C13_SecretReplaced ==
    (reifyPc = "done" /\ useSecret /\ reifyErr.kind = "none") =>
        \A rel \in DOMAIN root0 :
            (~InGitDir(rel) /\ SecretsOnly(root0[rel].data)) =>
                LET content == root0[rel].data
                    store == ParseEnv(root0[EnvPath].data)
                IN  root[rel].data =
                        [i \in 1..Len(content) |->
                            IF content[i][1] = "text" THEN content[i]
                            ELSE <<"text", store[content[i][2]]>>]

\* The tree with a store at the root and another in the subdirectory:
\* a = "value = abc" and c/x = "abc".
C13_Witness ==
    /\ reifyPc = "done" /\ useSecret /\ reifyErr.kind = "none"
    /\ root0 = SubdirEnvTree
    /\ root[<<"a">>].data = <<<<"text", "value = ">>, <<"text", "abc">>>>
    /\ root[<<"c", "x">>].data = Txt("abc")

PlainValues ==
    \A k \in DOMAIN data : \A i \in 1..Len(data[k]) : data[k][i][1] = "text"

HasSecret(content) ==
    \E i \in 1..Len(content) : content[i][1] \in {"secret", "secretnc"}

\* C15 (as claimed): without --secret a file whose placeholders are secret
\* lookups, however they are spelled, has the same bytes after reify.
C15_PassThroughIdentity_Claimed ==
    (reifyPc = "done" /\ ReifyCalled /\ ~useSecret) =>
        \A rel \in DOMAIN root0 :
            (~InGitDir(rel) /\ SecretsOnly(root0[rel].data)
                /\ HasSecret(root0[rel].data))
            => root[rel].data = root0[rel].data

CanonicalOnly(content) ==
    \A i \in 1..Len(content) : content[i][1] \in {"text", "secret"}

\* C15: without --secret a file whose placeholders are secret lookups in the
\* spelling {{ "KEY" | secret }} has the same bytes after reify, and the
\* resolver is built without reading any .env.
C15_PassThroughIdentity ==
    /\ (reifyPc \in {"dry", "write", "done"} /\ ~useSecret) =>
          secretFn = PassThrough /\ reifyErr.kind # "env"
    /\ (reifyPc = "done" /\ ReifyCalled /\ ~useSecret) =>
          \A rel \in DOMAIN root0 :
              (~InGitDir(rel) /\ CanonicalOnly(root0[rel].data)
                  /\ HasSecret(root0[rel].data))
              => root[rel].data = root0[rel].data

\* A successful reify without --secret and without .env, over a file
\* holding value = {{ "KEY" | secret }}.
C15_Witness ==
    /\ reifyPc = "done" /\ ReifyCalled /\ ~useSecret /\ runs = 1
    /\ reifyErr.kind = "none"
    /\ Stat(root0, EnvPath) = "enoent"
    /\ \E rel \in DOMAIN root0 :
          /\ ~InGitDir(rel)
          /\ root0[rel].data = <<<<"text", "value = ">>, <<"secret", "KEY">>>>
          /\ root[rel].data = root0[rel].data

\* C16: a template whose rendering reaches a lookup of a key the context
\* lacks fails with the execute error of the missing key, and nothing is
\* written: reify leaves the tree as it was, edit leaves the temporary
\* directory, home and the repository without the file.
C16_AbsentKeyFails ==
    /\ \A rel \in DOMAIN localDir :
          (EditStoppedAt(rel) /\ FailsOnAbsentKey(localDir[rel].data))
          => reifyErr = Err("execute", rel, "missingkey") /\ NotInstalled(rel)
    /\ ( /\ reifyPc = "done" /\ ReifyCalled
         /\ \E i \in 1..Len(WalkFiles(root0)) : ProcessFails(root0, WalkFiles(root0)[i])
         /\ CanRead(root0, FirstFailing(root0))
         /\ FailsOnAbsentKey(root0[FirstFailing(root0)].data) )
       => reifyErr = Err("execute", FirstFailing(root0), "missingkey") /\ root = root0

\* Edit stops at its second dirty file, {{.k}} with no k configured, the
\* first one installed and committed.
C16_Witness ==
    /\ reifyPc = "editReturn"
    /\ editIdx = 2
    /\ reifyErr.kind = "execute" /\ reifyErr.cause = "missingkey"
    /\ dirtyFiles[2] \notin DOMAIN tempDir
    /\ Len(committed) = 1

(***************************************************************************)
(* Properties of update                                                    *)
(***************************************************************************)
\* The pairs of steps that may complete one right after the other.
StepOrder ==
    { <<"checkoutMain", "pushMain">>,
      <<"pushMain", "readMainID">>,
      <<"readMainID", "checkoutFork">>,
      <<"checkoutFork", "pullFork">>,
      <<"pullFork", "readForkID">>,
      <<"readForkID", "sleepPull">>,
      <<"sleepPull", "readForkID">>,
      <<"pullFork", "diff">>,
      <<"readForkID", "diff">>,
      <<"diff", "confirm">>,
      <<"confirm", "copy">>,
      <<"copy", "copy">> }

Done(name) == \E i \in 1..Len(trace) : trace[i] = name

\* C3: the steps of update complete in the order checkout main, push main,
\* read main's marker, checkout fork, pull fork, wait iterations, diff,
\* confirmation, copy, each right after the one before it; home is written
\* only after the diff was computed with the fork checked out and the user
\* confirmed.
C3_StepOrder ==
    /\ Len(trace) > 0 => trace[1] = "checkoutMain"
    /\ \A i \in 1..(Len(trace) - 1) : <<trace[i], trace[i + 1]>> \in StepOrder
    /\ (homeDir # home0 \/ Done("copy")) =>
          /\ Done("diff") /\ Done("confirm")
          /\ diffBranch = "fork"
          /\ Confirms(resp)

\* The run copied a file into home after a wait iteration.
C3_Witness ==
    /\ updPc = "applied"
    /\ homeDir # home0
    /\ Done("sleepPull")
    /\ Len(diffs) = 2

\* The wait loop is active: the flag is set and main's marker is not empty.
WaitActive == updateWait /\ mainID # ""

\* C4: with the wait loop active, the diff is computed (and so the prompt
\* shown and home written) only when the fork marker last read equals the
\* main marker read after the push.
C4_DiffOnlyWhenSynced ==
    (WaitActive /\ (Done("diff") \/ updPc = "diff")) => forkID = mainID

C4_Witness ==
    /\ WaitActive
    /\ updPc = "applied"
    /\ iters >= 2
    /\ forkID = mainID

\* C5: when the fork marker first equals the main marker after the k-th pull
\* attempt (the pull before the loop being the first), the wait loop ends in
\* its k-th iteration (its k-th read of the marker), and it is still running
\* while no pull has produced the main marker.
C5_WaitEndsAtFirstMatch ==
    /\ (WaitActive /\ (Done("diff") \/ updPc = "diff")) =>
          /\ iters = Len(markerSeq)
          /\ markerSeq[iters] = mainID
          /\ \A j \in 1..(iters - 1) : markerSeq[j] # mainID
    /\ (WaitActive /\ updPc = "waitSleep") =>
          /\ iters = Len(markerSeq)
          /\ \A j \in 1..iters : markerSeq[j] # mainID

\* The loop ended in its third iteration, the first re-pull having left the
\* fork marker as it was.
C5_Witness ==
    /\ WaitActive
    /\ updPc = "diff"
    /\ iters = 3
    /\ markerSeq[2] = markerSeq[1]

Called(name, result) == \E i \in 1..Len(calls) : calls[i] = <<name, result>>

CalledAny(name) == \E i \in 1..Len(calls) : calls[i][1] = name

\* C17: when the checkout of main, the push of main or the checkout of the
\* fork fails, that call is the last one update makes: it returns the error of
\* that step, and there is no pull, no diff, no prompt and no write in home.
C17_FatalFailures ==
    \A i \in 1..Len(calls) :
        ( /\ calls[i][1] \in {"checkoutMain", "pushMain", "checkoutFork"}
          /\ calls[i][2] = "failure" )
        => /\ i = Len(calls)
           /\ updPc = "failed" /\ updErr = calls[i][1]
           /\ ~CalledAny("pull") /\ ~CalledAny("getDiffs")
           /\ ~CalledAny("readLine") /\ ~CalledAny("copyFile")
           /\ ~Done("pullFork") /\ ~Done("diff") /\ ~Done("confirm")
           /\ diffs = <<>> /\ resp = <<>> /\ homeDir = home0

\* The checkout of the fork fails while the fork differs from home.
C17_Witness ==
    /\ updPc = "failed" /\ updErr = "checkoutFork"
    /\ Called("checkoutFork", "failure")
    /\ getDiffs(forkHead.tree, homeDir, ignorePatterns) # <<>>

\* C18: a failed pull of the fork, the first one or one of the wait loop, is
\* never the error update returns, and the next thing update does is what
\* follows a pull that worked: the marker check inside the wait loop, the
\* diff otherwise.
C18_PullFailureIsWarning ==
    \A i \in 1..Len(calls) :
        calls[i] = <<"pull", "failure">>
        => LET first == \A j \in 1..(i - 1) : calls[j][1] # "pull"
               waits == updateWait /\ mainID # ""
           IN  /\ updErr # "pull"
               /\ i = Len(calls) =>
                     updPc = IF first /\ ~waits THEN "diff" ELSE "waitCheck"
               /\ i < Len(calls) =>
                     calls[i + 1][1] = IF first /\ ~waits THEN "getDiffs"
                                       ELSE "readForkID"

\* The first pull and a re-pull both failed and update went on to apply the
\* changes.
C18_Witness ==
    /\ updPc = "applied"
    /\ Cardinality({i \in 1..Len(calls) : calls[i] = <<"pull", "failure">>}) >= 2

\* C19: a push of main that finds nothing to push is followed by exactly what
\* follows a push that transferred commits: the step completes, the marker of
\* main is read next and the fork is checked out after it, and the push is
\* never the error update returns.
C19_NothingToPushIsSuccess ==
    \A i \in 1..Len(calls) :
        (calls[i][1] = "pushMain" /\ calls[i][2] \in {"ok", "alreadyUpToDate"})
        => /\ updErr # "pushMain"
           /\ Done("pushMain")
           /\ i = Len(calls) => updPc = "mainPushed"
           /\ i < Len(calls) => calls[i + 1][1] = "readMainID"
           /\ (i + 1 < Len(calls) /\ calls[i + 1][2] = "ok")
                 => calls[i + 2][1] = "checkoutFork"

\* Origin already had the head of main and update ran to the end.
C19_Witness ==
    /\ Called("pushMain", "alreadyUpToDate")
    /\ originMain = mainHead
    /\ updPc = "applied"

\* C20: when getDiffs returns no path, update ends in the up-to-date outcome
\* with no error, without prompting, reading a line or writing in home; the
\* up-to-date outcome is reached in no other way.
C20_EmptyDiffUpToDate ==
    /\ (Done("diff") /\ diffs = <<>>) =>
          /\ updPc = "upToDate" /\ updErr = ""
          /\ ~Done("confirm") /\ ~CalledAny("readLine") /\ resp = <<>>
          /\ ~CalledAny("copyFile") /\ homeDir = home0
    /\ updPc = "upToDate" => (Done("diff") /\ diffs = <<>>)

\* The fork and home hold the same files.
C20_Witness ==
    /\ updPc = "upToDate"
    /\ homeDir # NoTree
    /\ localDir = homeDir

\* C21: with a non-empty diff, update copies only if the answer, trimmed and
\* lower-cased, is y or yes; after any other answer, empty input or a failed
\* read it ends as aborted with home as it was before the run.
C21_ConfirmOrAbort ==
    CalledAny("readLine") =>
        /\ CalledAny("copyFile") => TrimSpace(ToLower(resp)) \in {<<"y">>, <<"y", "e", "s">>}
        /\ (~Confirms(resp) \/ Called("readLine", "failure")) =>
               updPc = "aborted" /\ homeDir = home0

Copying == updPc \in {"copy", "applied"} \/ (updPc = "failed" /\ updErr = "copyFile")

\* C22: after confirmation the entries of the diff are copied from the fork
\* tree to home in report order; the loop ends as applied only after the last
\* one; when the copy of an entry fails update returns an error, no later
\* entry is copied and the earlier ones stay copied.
C22_CopyInOrder ==
    Copying =>
        /\ copyIdx \in 1..(Len(diffs) + 1)
        /\ \A j \in 1..Len(diffs) :
              /\ diffs[j] \in DOMAIN localDir
              /\ At(home0, diffs[j]) # localDir[diffs[j]]
              /\ At(homeDir, diffs[j]) =
                    IF j < copyIdx THEN localDir[diffs[j]] ELSE At(home0, diffs[j])
        /\ \A p \in (DOMAIN homeDir \cup DOMAIN home0) :
              (\A j \in 1..Len(diffs) : diffs[j] # p) => At(homeDir, p) = At(home0, p)
        /\ (updPc = "applied") = (copyIdx = Len(diffs) + 1)
        /\ updPc = "failed" => calls[Len(calls)] = <<"copyFile", "failure">>

C22_Witness ==
    /\ updPc = "failed" /\ updErr = "copyFile"
    /\ copyIdx = 2 /\ Len(diffs) = 2
    /\ homeDir # home0

\* C23: when the apply step fails part-way, the entries update reports as not
\* applied are exactly the failing entry and every entry after it.
C23_ReportsUnapplied ==
    (updPc = "failed" /\ updErr = "copyFile") =>
        {errPath} = {diffs[j] : j \in copyIdx..Len(diffs)}

(***************************************************************************)
(* Properties of the check command                                         *)
(***************************************************************************)
\* RunE of update or of check returned nil.
Succeeded == updPc \in {"upToDate", "aborted", "applied", "checked"}

\* C24: every successful run of update (up to date, aborted or applied) and
\* every successful run of check (with or without the full comparison) ends
\* with the fork branch checked out.
C24_EndsOnFork ==
    Succeeded => branch = "fork" /\ localDir = forkHead.tree

C24_Witness ==
    /\ updPc = "checked"
    /\ checkFlagFull
    /\ Called("check:checkoutMain", "ok")
    /\ branch = "fork"

\* The steps of the full comparison.
InFull == updPc \in {"checkFull", "checkOnMain", "checkReified", "checkOnForkAgain"}

\* C25: the full comparison of check writes only inside its scratch tree:
\* none of its steps changes a file of home or a commit of main or of the
\* fork, the working copy always holds the tracked files of the checked-out
\* branch unmodified, and the scratch tree is gone when check returns.
C25_NoWriteBack ==
    /\ [][InFull => UNCHANGED <<homeDir, mainHead, forkHead, originMain, originFork>>]_vars
    /\ [](CalledAny("check:compareDirs") =>
             /\ homeDir = home0
             /\ localDir = HeadCommit.tree
             /\ (updPc \in {"checked", "failed"} => checkTemp = NoTree))

C25_Witness ==
    /\ updPc = "checked"
    /\ checkFlagFull
    /\ templateStatus # <<>>
    /\ mainHead.tree # forkHead.tree

(***************************************************************************)
(* Properties of add, edit and remove                                      *)
(***************************************************************************)
\* The last line of a message.
LastLine(msg) == SplitLines(msg)[Len(SplitLines(msg))]

\* The token of a trailer line "SCADUFAX_ID: <token>".
TrailerToken(line) == SubSeq(line, 3, Len(line))

IsTrailer(line) ==
    /\ Len(line) >= 3
    /\ line[1] = "SCADUFAX_ID:" /\ line[2] = " "
    /\ \A k \in 3..Len(line) : ~IsSpace(line[k])

\* C26: every commit add, edit and remove create has a message whose last
\* line is the trailer SCADUFAX_ID: <token>, and the token differs from the
\* token of every other commit.
C26_CommitTrailer ==
    \A i \in 1..Len(committed) :
        /\ IsTrailer(LastLine(committed[i].msg))
        /\ GetHeadID(committed[i].msg) = TrailerToken(LastLine(committed[i].msg))
        /\ \A j \in 1..Len(committed) :
              j # i => TrailerToken(LastLine(committed[j].msg))
                       # TrailerToken(LastLine(committed[i].msg))

\* Two removals were committed.
C26_Witness ==
    /\ repoPc = "done"
    /\ Len(committed) = 2
    /\ \A i \in 1..2 : committed[i].msg[1] = "Remove"

\* C28: whatever branch earlier commands left checked out, the files edit
\* opens are the versions of the main branch and the commits it creates are
\* on main.
C28_EditOnMain ==
    repoPc = "editing" =>
        /\ \A i \in 1..Len(opened) :
              /\ opened[i].branch = "main"
              /\ opened[i].file = At(mainHead.tree, opened[i].path)
        /\ \A i \in 1..Len(committed) : committed[i].branch = "main"

\* C29: add of a file whose path already exists in the working copy of the
\* repository fails with the "already exists in repo" error, leaves the
\* working copy as it is and creates no commit.
C29_AddExistingFails ==
    /\ [][(repoPc = "addFiles" /\ Stat(localDir, args[argIdx]) \in {"file", "dir"})
            => /\ repoPc' = "failed" /\ repoErr' = "exists"
               /\ localDir' = localDir
               /\ committed' = committed]_vars
    /\ [](repoErr = "exists" =>
             /\ repoPc = "failed"
             /\ Stat(localDir, args[argIdx]) \in {"file", "dir"}
             /\ committed = <<>>)

\* The second argument exists in the repository with other bytes than at home.
C29_Witness ==
    /\ repoErr = "exists"
    /\ argIdx = 2
    /\ args[2] \in DOMAIN localDir /\ args[2] \in DOMAIN homeDir
    /\ localDir[args[2]] # homeDir[args[2]]

\* The answer remove read for a file, if it asked.
Asked(rel) == {events[i].line : i \in {k \in 1..Len(events) :
                  events[k].ev = "ask" /\ events[k].path = rel}}

RemovalCommitted(rel) ==
    \E i \in 1..Len(committed) :
        /\ committed[i].path = rel
        /\ committed[i].msg[1] = "Remove"
        /\ committed[i].branch = "main"

\* remove got to its local-removal step for the file.
ReachedLocalStep(rel) ==
    \E i \in 1..Len(events) : events[i].ev = "commit" /\ events[i].path = rel

\* C30: remove deletes a home file only with --local and with confirmation
\* off or the answer y or yes; with no --local, or with confirmation unset or
\* on and another answer, the home file stays, and the removal from the
\* repository is committed all the same.
C30_RemoveLocal ==
    repoPc \in {"removeFiles", "done", "failed"} /\ opened = <<>> /\ relPaths = <<>> =>
    \A rel \in DOMAIN home0 :
        /\ rel \notin DOMAIN homeDir =>
              /\ removeLocal
              /\ \/ confirm = "false"
                 \/ \E line \in Asked(rel) :
                       TrimSpace(ToLower(line)) \in {<<"y">>, <<"y", "e", "s">>}
        /\ ( /\ ReachedLocalStep(rel)
             /\ \/ ~removeLocal
                \/ /\ confirm \in {"unset", "true"}
                   /\ \A line \in Asked(rel) :
                         TrimSpace(ToLower(line)) \notin {<<"y">>, <<"y", "e", "s">>} )
           => /\ rel \in DOMAIN homeDir /\ homeDir[rel] = home0[rel]
              /\ RemovalCommitted(rel)
        /\ (rel \notin DOMAIN homeDir \/ Asked(rel) # {}) => RemovalCommitted(rel)

\* With confirmation unset, one file was deleted after YES and the other
\* kept after n; both removals are committed.
C30_Witness ==
    /\ repoPc = "done" /\ removeLocal /\ confirm = "unset"
    /\ Len(committed) = 2
    /\ \E rel \in DOMAIN home0 : rel \notin DOMAIN homeDir
    /\ \E rel \in DOMAIN homeDir : Asked(rel) = {<<"n", "\n">>}

(***************************************************************************)
(* Properties of the sync marker                                           *)
(***************************************************************************)
\* The lines of the message that start with the prefix as they stand.
MarkerLines(msg) == {i \in 1..Len(SplitLines(msg)) : HasPrefix(SplitLines(msg)[i])}

\* The lines that start with the prefix once their surrounding white space
\* is trimmed.
TrimmedMarkerLines(msg) ==
    {i \in 1..Len(SplitLines(msg)) : HasPrefix(TrimSpace(SplitLines(msg)[i]))}

Max(S) == CHOOSE x \in S : \A y \in S : y <= x

TokenOfLine(msg, i) == TrimSpace(Tail(TrimSpace(SplitLines(msg)[i])))

\* After a generation the marker read back is the token generated.
RoundTrip == (headID.done /\ uuids > 0) => headID.id = lastToken

\* C27 as stated: the marker is the trimmed token of the last line that
\* starts with SCADUFAX_ID:, empty when no line does; and the marker of a
\* generated message is the generated token.
C27_Marker_Claimed ==
    /\ headID.done =>
          headID.id = IF MarkerLines(headMessage) = {} THEN <<>>
                      ELSE TokenOfLine(headMessage, Max(MarkerLines(headMessage)))
    /\ RoundTrip

\* C27: the marker is the trimmed token of the last line that, with its
\* surrounding white space trimmed, starts with SCADUFAX_ID:, empty when no
\* line does; and the marker of a generated message is the generated token,
\* also when the message before it holds marker lines.
C27_Marker ==
    /\ headID.done =>
          headID.id = IF TrimmedMarkerLines(headMessage) = {} THEN <<>>
                      ELSE TokenOfLine(headMessage, Max(TrimmedMarkerLines(headMessage)))
    /\ RoundTrip

\* The marker of a generated message was read while an earlier line of the
\* message is a marker line with another token.
C27_Witness ==
    /\ headID.done /\ uuids = 1
    /\ headID.id = lastToken
    /\ Cardinality(TrimmedMarkerLines(headMessage)) >= 2

(***************************************************************************)
(* getDiffs against compareDirs                                            *)
(***************************************************************************)
IsNewOrModified(e) == e.tag \in {"N", "M"}

\* The paths of the New and Modified lines of a report, in report order.
ReportedChanges(rep) ==
    LET sel == SelectSeq(rep, IsNewOrModified)
    IN  [i \in 1..Len(sel) |-> sel[i].path]

\* C38: for the same source tree, target tree and ignore patterns, the list
\* getDiffs returns holds exactly the paths compareDirs reports as New or
\* Modified, in the same order, with or without the deleted entries.
C38_GetDiffsMatchesCompare ==
    cmpPc = {"compareDirs", "getDiffs"} => changes = ReportedChanges(report)

\* Both ran over trees with a new file and a modified file.
C38_Witness ==
    /\ cmpPc = {"compareDirs", "getDiffs"}
    /\ Len(changes) = 2
    /\ \E i, j \in 1..Len(report) : report[i].tag = "N" /\ report[j].tag = "M"

(***************************************************************************)
(* What update leaves alone in home                                        *)
(***************************************************************************)
InDiffs(p) == \E i \in 1..Len(diffs) : diffs[i] = p

\* The home file p is not a change of the fork tree against home: the fork
\* has no such file, or the same bytes, or p matches an ignore pattern.
NotAChange(p) ==
    \/ p \notin DOMAIN localDir
    \/ isIgnored(p, ignorePatterns)
    \/ localDir[p].data = home0[p].data

\* C39: update writes only home paths listed New or Modified by the diff of
\* the fork tree against home: no home file is ever deleted, a home path that
\* was created or changed is in the list, and a home file that the fork
\* lacks, that equals its fork counterpart byte for byte, or that an ignore
\* pattern matches has the content it had before update.
C39_WritesOnlyDiffPaths ==
    /\ \A p \in DOMAIN home0 : p \in DOMAIN homeDir
    /\ \A p \in DOMAIN homeDir :
          (p \notin DOMAIN home0 \/ homeDir[p] # home0[p]) =>
              Done("diff") /\ InDiffs(p)
    /\ Done("diff") =>
          \A p \in DOMAIN home0 :
              NotAChange(p) => homeDir[p].data = home0[p].data

\* Update applied a change while home held an ignored file that differs
\* from the fork's.
C39_Witness ==
    /\ updPc = "applied"
    /\ homeDir # home0
    /\ \E p \in DOMAIN home0 :
          /\ isIgnored(p, ignorePatterns)
          /\ p \in DOMAIN localDir
          /\ localDir[p].data # home0[p].data

(***************************************************************************)
(* The guard of the wait loop                                              *)
(***************************************************************************)
Pulls == Cardinality({i \in 1..Len(calls) : calls[i][1] = "pull"})

\* C33: the wait loop runs only with the wait flag set and a non-empty main
\* marker: otherwise update reads no fork marker, pulls the fork once and
\* never again, and the step after that pull is the diff, whatever marker
\* the fork carries.
C33_WaitOnlyWhenActive ==
    ~WaitActive =>
        /\ ~CalledAny("readForkID")
        /\ ~Done("readForkID") /\ ~Done("sleepPull")
        /\ updPc \notin {"waitCheck", "waitSleep"}
        /\ iters = 0 /\ forkID = ""
        /\ Pulls <= 1
        /\ \A i \in 1..Len(trace) : trace[i] = "pullFork" =>
              IF i = Len(trace) THEN updPc = "diff"
              ELSE trace[i + 1] = "diff"

\* The flag is set, main carries no marker, the fork does, and the diff
\* found changes right after the one pull.
C33_Witness ==
    /\ updateWait /\ mainID = ""
    /\ Done("readMainID")
    /\ forkHead.id # ""
    /\ updPc = "applied"

(***************************************************************************)
(* The wait loop has no bound of its own                                   *)
(***************************************************************************)
InWaitLoop == updPc \in {"waitCheck", "waitSleep"}

NeverSynced == \A j \in 1..Len(markerSeq) : markerSeq[j] # mainID

\* C34: the wait loop has no timeout and no attempt bound: with the loop
\* active, as long as no pull has brought a fork marker equal to main's and
\* no read of the marker has failed, update is still inside the loop after
\* any number of pulls, failed or not: it has computed no diff, shown no
\* prompt and written nothing in home.
C34_NoAttemptBound ==
    ( /\ WaitActive /\ Done("pullFork")
      /\ NeverSynced
      /\ ~Called("readForkID", "failure") )
    => /\ InWaitLoop
       /\ ~Done("diff") /\ ~CalledAny("getDiffs")
       /\ ~CalledAny("readLine") /\ ~CalledAny("copyFile")
       /\ diffs = <<>> /\ homeDir = home0

\* Every pull the bound allows was made, one failed and one worked, every
\* marker read succeeded, and update is still waiting.
C34_Witness ==
    /\ WaitActive /\ NeverSynced
    /\ Len(markerSeq) = MaxPulls /\ iters = MaxPulls
    /\ updPc = "waitSleep"
    /\ ~Called("readForkID", "failure")
    /\ Called("pull", "failure") /\ Called("pull", "ok")

(***************************************************************************)
(* One tree at a time in the working copy                                  *)
(***************************************************************************)
LastCall == calls[Len(calls)]

RenderStep == updPc = "checkOnMain" /\ checkTemp' # checkTemp

TemplateCompareStep == updPc = "checkOnForkAgain" /\ updPc' = "checked"

\* C35: in check --full the scratch tree is filled only while main is checked
\* out and the working copy holds main's files, the scratch tree is compared
\* with the working copy only right after the fork was checked out again and
\* the working copy holds the fork's files, and when that second checkout
\* fails check returns its error without comparing.
C35_OneTreeAtATime ==
    /\ [][ /\ RenderStep =>
                /\ branch = "main" /\ localDir = mainHead.tree
                /\ UNCHANGED <<branch, localDir>>
           /\ TemplateCompareStep =>
                /\ branch = "fork" /\ localDir = forkHead.tree
                /\ LastCall = <<"check:checkoutFork", "ok">>
                /\ UNCHANGED <<branch, localDir>> ]_vars
    /\ []( ( /\ Called("check:reifyMain", "ok")
             /\ Called("check:checkoutFork", "failure") )
           => /\ updPc = "failed" /\ updErr = "check:checkoutFork"
              /\ LastCall = <<"check:checkoutFork", "failure">>
              /\ templateStatus = <<>> )

\* Main was rendered into the scratch tree, the fork was checked out a
\* second time and the comparison found the two branches apart.
C35_Witness ==
    /\ updPc = "checked"
    /\ Called("check:reifyMain", "ok")
    /\ LastCall = <<"check:compareDirs", "ok">>
    /\ calls[Len(calls) - 1] = <<"check:checkoutFork", "ok">>
    /\ templateStatus # <<>>

(***************************************************************************)
(* ReifyFile renders before it writes                                      *)
(***************************************************************************)
\* The error comes from template.Parse or from Execute.
RenderFailed(err) == err.kind \in {"parse", "execute"}

\* C36: ReifyFile renders into memory before it touches the destination:
\* when parsing or executing the template fails the destination tree is what
\* it was, whether the destination file existed or not, and a step of edit,
\* where the destination is the temporary directory, leaves the repository
\* file it read unchanged whether it succeeds or fails.
C36_RenderBeforeWrite ==
    /\ [][ reifyPc = "editFiles" =>
               /\ localDir' = localDir
               /\ (reifyErr' # reifyErr /\ RenderFailed(reifyErr')) =>
                      tempDir' = tempDir /\ homeDir' = homeDir ]_vars
    /\ []( secretFn.mode # "none" =>
             \A rel \in DOMAIN localDir :
                 \A dest \in {tempDir, homeDir, localDir} :
                     LET res == ReifyFile(localDir, dest, rel, rel, data, secretFn)
                     IN  RenderFailed(res.err) => res.tree = dest )

\* Edit stopped at a template that does not parse, with the file present in
\* home and nothing in the temporary directory.
C36_Witness ==
    /\ reifyPc = "editReturn"
    /\ reifyErr.kind = "parse"
    /\ reifyErr.path \in DOMAIN homeDir
    /\ reifyErr.path \notin DOMAIN tempDir

(***************************************************************************)
(* The order of the edit workflow                                          *)
(***************************************************************************)
\* The iterations of PerformEdit's loop that ran to their end.
Processed == IF editIdx = 0 THEN 0 ELSE editIdx - 1

ArgSet == {args[i] : i \in 1..Len(args)}

RenderOf(rel) == Render(localDir[rel].data, data, secretFn)

\* C37: edit processes the changed files in the order of its arguments, each
\* one reified, then installed in home, then committed: the commits are those
\* of the files whose iteration ended, in order, each of them installed with
\* its rendered bytes; the file the run failed at is in home only if the
\* failure is the commit's and is in no commit; the files after it (those
\* not named earlier in the list) are neither rendered nor installed nor
\* committed; an error ends the loop; and
\* with no changed file nothing is rendered, installed or committed.
C37_EditOrder ==
    repoPc = "editing" =>
        /\ \E D \in SUBSET ArgSet :
              dirtyFiles = SelectSeq(args, LAMBDA rel : rel \in D)
        /\ Len(committed) = Processed
        /\ \A i \in 1..Processed :
              LET rel == dirtyFiles[i]
              IN  /\ committed[i].path = rel
                  /\ CanRead(localDir, rel) /\ RenderOf(rel).ok
                  /\ rel \in DOMAIN homeDir
                  /\ homeDir[rel].data = RenderOf(rel).out
                  /\ reifyPc \in {"editFiles", "editReturn"} =>
                        rel \in DOMAIN tempDir
        /\ \A j \in (Processed + 1)..Len(dirtyFiles) :
              LET rel == dirtyFiles[j]
              IN  (\A i \in 1..(j - 1) : dirtyFiles[i] # rel) =>
                    /\ (j > editIdx \/ reifyErr.kind # "commit") =>
                          At(homeDir, rel) = At(home0, rel)
                    /\ (j > editIdx \/ RenderFailed(reifyErr)
                           \/ reifyErr.kind \in {"read", "env"}) =>
                          rel \notin DOMAIN tempDir
        /\ \A rel \in DOMAIN homeDir \cup DOMAIN home0 :
              At(homeDir, rel) # At(home0, rel) =>
                  \E j \in 1..Len(dirtyFiles) : dirtyFiles[j] = rel
        /\ reifyErr.kind # "none" => reifyPc \in {"editReturn", "edited"}
        /\ (dirtyFiles = <<>> /\ reifyPc \in {"edit", "editReturn", "edited"}) =>
              committed = <<>> /\ homeDir = home0 /\ tempDir = NoTree

\* Edit of two files stopped at the second one, whose template failed to
\* render, with the first one installed and committed.
C37_Witness ==
    /\ repoPc = "editing"
    /\ reifyPc = "editReturn"
    /\ Len(dirtyFiles) = 2 /\ editIdx = 2
    /\ dirtyFiles[1] # dirtyFiles[2]
    /\ RenderFailed(reifyErr)
    /\ Len(committed) = 1 /\ committed[1].path = dirtyFiles[1]
    /\ homeDir # home0

(***************************************************************************)
(* Properties of CreateBranch and Checkout                                 *)
(***************************************************************************)
\* The step is a call of the named operation.
GitStep(op) == gitN' # gitN /\ gitOp'.op = op

\* C31: CreateBranch is idempotent: a call for a name without a branch
\* creates the branch at the commit of HEAD, a call for a name that has a
\* branch succeeds and leaves that branch where it points, wherever HEAD is
\* by then, and no call moves HEAD or another branch.
C31_CreateBranchIdempotent ==
    [][ GitStep("createBranch") =>
          LET name == gitOp'.name
          IN  /\ gitOp'.err = "nil"
              /\ HEAD' = HEAD
              /\ DOMAIN localRefs' = DOMAIN localRefs \cup {name}
              /\ \A b \in DOMAIN localRefs : localRefs'[b] = localRefs[b]
              /\ name \notin DOMAIN localRefs => localRefs'[name] = localRefs[HEAD] ]_vars

\* CreateBranch was just called for a branch an earlier call created, with
\* HEAD at another commit than the one that branch got and still has.
C31_Witness ==
    /\ gitOp.op = "createBranch"
    /\ gitOp.name \in DOMAIN createdAt
    /\ localRefs[gitOp.name] = createdAt[gitOp.name]
    /\ localRefs[HEAD] # createdAt[gitOp.name]

\* C32: Checkout of a name with no local branch and a remote branch creates
\* the local branch at the remote branch's commit and switches to it; with
\* neither branch it fails and leaves HEAD and the branches as they were.
C32_CheckoutFromRemote ==
    [][ (GitStep("checkout") /\ gitOp'.name \notin DOMAIN localRefs) =>
          LET name == gitOp'.name
          IN  IF name \in DOMAIN remoteRefs
              THEN /\ gitOp'.err = "nil"
                   /\ HEAD' = name
                   /\ localRefs' = (name :> remoteRefs[name]) @@ localRefs
              ELSE /\ gitOp'.err # "nil"
                   /\ HEAD' = HEAD
                   /\ localRefs' = localRefs ]_vars

====
